---- MODULE Spec2Model ----
(***************************************************************************)
(* The Quake File System handle layer of Quake/filesys.c: one open handle  *)
(* over a loose file, a PAK entry, a stored pk3 entry or a deflated pk3    *)
(* entry, driven through QFS_ReadFile, QFS_Seek and QFS_IgnoreBytes.       *)
(***************************************************************************)
EXTENDS Integers, Sequences, FiniteSets, TLC

\* Largest length (in bytes) of a resource of the model.
MaxRaw == 4

\* Model value of miniz's MZ_ZIP_MAX_IO_BUF_SIZE (64 KiB in the build), the
\* size of the inflator's output buffer; the input buffer is half of it.
MZ_ZIP_MAX_IO_BUF_SIZE == 2

\* Cap on the cursor: a run stops extending once |offs| would exceed it.
MaxOffs == 8

\* size_t arithmetic wraps modulo SIZE_T_MOD (2^64 in the build, scaled to
\* the range of the model checker's integers).
SIZE_T_MOD == 2 ^ 20

VARIABLES
    env,      \* the resource behind the handle: OS file, pack entry, zip stat
    h,        \* the qfshandle_t (with the position of the FILE* it reads)
    status,   \* "none" before open, "open", "fatal" after Sys_Error, "hung"
    last,     \* the last operation: its arguments, result and pre-state
    packs,    \* the program-wide table of loaded packs
    com_searchpaths, \* the search path, head first
    call,     \* the last call on the table or the search path
    text,     \* the characters of the resource, by raw position
    streams,  \* the position of each FILE* open on the pack file
    threads,  \* the handle of each thread and its place in PAK_Read/ZIP_Read
    heap      \* what is allocated: a pack, the handles on it, their blocks

\* The variables of a handle, those of the pack table and search path, and
\* the rest.
handle == <<env, h, status, last>>
registry == <<packs, com_searchpaths, call>>
outside == <<text, streams, threads, heap>>
not_handle == <<registry, outside>>
not_registry == <<handle, outside>>

vars == <<handle, registry, outside>>

Min(a, b) == IF a < b THEN a ELSE b
Max(a, b) == IF a > b THEN a ELSE b

\* (size_t)x
ToSizeT(x) == x % SIZE_T_MOD

\* F(e), with e evaluated once and passed by value.
Strict(F(_), e) == CHOOSE r \in {F(v) : v \in {e}} : TRUE

Whences == {"SEEK_SET", "SEEK_CUR", "SEEK_END", "SEEK_OTHER"}

(***************************************************************************)
(* Contents of the files.  Every position holds a different byte, and the  *)
(* three kinds of content are disjoint, so a read that delivers the wrong  *)
(* position, or compressed instead of inflated bytes, is seen.             *)
(***************************************************************************)
LooseByte(i) == 50 + i          \* byte i of a loose file
ArchiveByte(i) == 100 + i       \* byte i of a pack file (.pak or .pk3)
Inflated(j) == 200 + j          \* byte j of the inflation of a deflated entry

\* Size of the on-disk PAK header (dpackheader_t): the first payload offset.
PAK_HEADER_SIZE == 12

\* Length of the .pak files of the model: a PAK entry at PAK_HEADER_SIZE of
\* MaxRaw bytes ends exactly at the end of the archive.
PackFileLen == PAK_HEADER_SIZE + MaxRaw

\* Length of the .pk3 files of the model: an entry behind a local header with
\* a name of one byte and no extra field, of MaxRaw bytes, ends exactly at the
\* end of the archive.
Pk3FileLen == 30 + 1 + MaxRaw

\* Largest compressed size of a deflated entry of the model.
MaxComp == 2

\* The raw positions of a resource whose characters vary.
MaxText == 3

\* The longest entry read by the threads.
MaxShared == 2

\* The empty inflator state (impl_data == NULL, or a fresh calloc).
NoZip ==
    [p_out |-> 0, out_read_ptr |-> 0, p_in |-> 0, readsz_in |-> 0,
     foffs_in |-> 0, foffs_out |-> 0, bsz_in |-> 0, bsz_out |-> 0,
     eof_flag |-> FALSE, inbuf |-> <<>>, outbuf |-> <<>>,
     infl |-> [consumed |-> 0, produced |-> 0, pending |-> 0]]

NoEnv ==
    [kind |-> "none", file_len |-> 0, filepos |-> 0, filelen |-> 0,
     local_header_ofs |-> 0, name_len |-> 0, extra_len |-> 0,
     comp_size |-> 0, uncomp_size |-> 0, method |-> 0, sig_ok |-> TRUE,
     supported |-> TRUE, missing |-> 0, io_error |-> FALSE]

\* QFS_AllocHandle: calloc zeroes every field.
QFS_AllocHandle ==
    [read |-> "NULL", seek |-> "NULL", filesize |-> "NULL",
     offs |-> 0, start |-> 0, endtrim |-> 0, pak_offset |-> 0,
     fpos |-> 0, zip |-> NoZip]

\* The result of a handle operation.
Result(hh, ret, buf, outcome) ==
    [h |-> hh, ret |-> ret, buf |-> buf, outcome |-> outcome]

\* fread (buf, 1, sz, f) with f at pos in a file of len bytes: the count.
FreadCount(len, pos, sz) == IF pos >= len THEN 0 ELSE Min(sz, len - pos)

\* Sys_fseek (f, pos, SEEK_SET) == 0: a negative position is refused, and
\* so is any position once the device fails.
Sys_fseek_ok(pos) == pos >= 0 /\ ~env.io_error

LooseBytes(pos, k) == [i \in 1..k |-> LooseByte(pos + i - 1)]
ArchiveBytes(pos, k) == [i \in 1..k |-> ArchiveByte(pos + i - 1)]

(***************************************************************************)
(* FS_*: regular disk files.                                               *)
(***************************************************************************)
FS_Read(hh, sz) ==
    LET k == FreadCount(env.file_len, hh.fpos, sz)
    IN  Result([hh EXCEPT !.fpos = @ + k, !.offs = @ + k],
               k, LooseBytes(hh.fpos, k), "ok")

FS_FileSize(hh) == env.file_len

FS_Seek(hh, pos) ==
    IF Sys_fseek_ok(pos)
    THEN Result([hh EXCEPT !.fpos = pos], 0, <<>>, "ok")
    ELSE Result(hh, 0 - 1, <<>>, "ok")

FS_Open ==
    [QFS_AllocHandle EXCEPT !.read = "FS_Read", !.filesize = "FS_FileSize",
                            !.seek = "FS_Seek"]

(***************************************************************************)
(* PAK_*: entries of a .pak file, and stored entries of a .pk3 file.       *)
(***************************************************************************)
PAK_FileSize(hh) == env.filelen

\* PAK_Read positioning the pack file without the entry's offset.
PAK_Read_NoOrigin(hh, sz) ==
    LET actualofs == hh.offs + hh.start
        filesize == ToSizeT(env.filelen)
        clamped == IF ToSizeT(actualofs + sz) > filesize
                   THEN ToSizeT(filesize - ToSizeT(actualofs))
                   ELSE sz
        target == hh.offs + hh.start
    IN  IF clamped > 0 /\ Sys_fseek_ok(target)
        THEN LET k == FreadCount(env.file_len, target, clamped)
             IN  Result([hh EXCEPT !.fpos = target + k, !.offs = @ + k],
                        k, ArchiveBytes(target, k), "ok")
        ELSE Result(hh, clamped, <<>>, "ok")

PAK_Read(hh, sz) ==
    LET actualofs == hh.offs + hh.start
        filesize == ToSizeT(PAK_FileSize(hh))
        clamped == IF ToSizeT(actualofs + sz) > filesize
                   THEN ToSizeT(filesize - ToSizeT(actualofs))
                   ELSE sz
        target == hh.pak_offset + hh.offs + hh.start
    IN  IF clamped > 0 /\ Sys_fseek_ok(target)
        THEN LET k == FreadCount(env.file_len, target, clamped)
             IN  Result([hh EXCEPT !.fpos = target + k, !.offs = @ + k],
                        k, ArchiveBytes(target, k), "ok")
        ELSE Result(hh, clamped, <<>>, "ok")

PAK_Seek(hh, pos) == Result([hh EXCEPT !.offs = pos], 0, <<>>, "ok")

\* PAK_Open reporting the size of the whole pack file for the entry.
PAK_Open_WholePack ==
    [QFS_AllocHandle EXCEPT !.read = "PAK_Read", !.filesize = "FS_FileSize",
                            !.seek = "PAK_Seek", !.pak_offset = env.filepos]

PAK_Open ==
    [QFS_AllocHandle EXCEPT !.read = "PAK_Read", !.filesize = "PAK_FileSize",
                            !.seek = "PAK_Seek", !.pak_offset = env.filepos]

(***************************************************************************)
(* The decoder behind tinfl_init and tinfl_decompress.  Compressed byte i  *)
(* of an entry completes Emit(i) bytes of its inflation; the decoder       *)
(* consumes input while it has room for the output, and fails on a byte    *)
(* that is not the next byte of the entry's deflate stream.                *)
(***************************************************************************)
\* Offset of the entry's compressed data in the zip file (zip file format).
PayloadOrigin == env.local_header_ofs + 30 + env.name_len + env.extra_len

\* Length of the entry's deflate stream: the comp_size bytes the central
\* directory declares, and those of a longer stream that it leaves out.
StreamLen == env.comp_size + env.missing

Emit(i) ==
    Cardinality({j \in 0..(env.uncomp_size - 1) :
                    (j * StreamLen) \div env.uncomp_size = i})

tinfl_init == [consumed |-> 0, produced |-> 0, pending |-> 0]

TinflResult(infl, st, nin, out) ==
    [infl |-> infl, status |-> st, szin |-> nin, out |-> out]

RECURSIVE tinfl_run(_, _, _, _, _, _)
tinfl_run(infl, input, space, flags, nin, out) ==
    LET w == Min(infl.pending, space)
        i1 == [infl EXCEPT !.pending = @ - w, !.produced = @ + w]
        out1 == out \o [i \in 1..w |-> Inflated(infl.produced + i - 1)]
    IN  IF i1.pending > 0
        THEN TinflResult(i1, "TINFL_STATUS_HAS_MORE_OUTPUT", nin, out1)
        ELSE IF i1.consumed >= StreamLen
        THEN TinflResult(i1, "TINFL_STATUS_DONE", nin, out1)
        ELSE IF input = <<>>
        THEN TinflResult(i1,
                 IF "TINFL_FLAG_HAS_MORE_INPUT" \in flags
                 THEN "TINFL_STATUS_NEEDS_MORE_INPUT"
                 ELSE "TINFL_STATUS_FAILED_CANNOT_MAKE_PROGRESS", nin, out1)
        ELSE IF Head(input) # ArchiveByte(PayloadOrigin + i1.consumed)
        THEN TinflResult(i1, "TINFL_STATUS_FAILED", nin, out1)
        ELSE Strict(LAMBDA a : tinfl_run(a.infl, Tail(input), space - w,
                                         flags, nin + 1, a.out),
                    [infl |-> [i1 EXCEPT !.consumed = @ + 1,
                                         !.pending = Emit(i1.consumed)],
                     out |-> out1])

\* tinfl_decompress (infl, in, &szin, outbuf, outbuf + p_out, &szout, flags)
tinfl_decompress(infl, input, szout, flags) ==
    tinfl_run(infl, input, szout, flags, 0, <<>>)

\* status < TINFL_STATUS_DONE
TinflFailed(st) ==
    st \in {"TINFL_STATUS_FAILED", "TINFL_STATUS_FAILED_CANNOT_MAKE_PROGRESS"}

(***************************************************************************)
(* ZIP_*: deflated entries of a .pk3 file.                                 *)
(***************************************************************************)
\* ZIP_LowLevelRead (opaque, ofs, buf, n): the count, or -1 for Sys_Error.
ZIP_LowLevelRead(ofs, n) ==
    IF ~Sys_fseek_ok(ofs) THEN 0 - 1 ELSE FreadCount(env.file_len, ofs, n)

\* buf [at .. at + Len(bytes)) := bytes
Store(buf, at, bytes) ==
    [i \in 1..Len(buf) |->
        IF i > at /\ i <= at + Len(bytes) THEN bytes[i - at] ELSE buf[i]]

\* memcpy (outbuf, p->outbuf + from, n); a read past the buffer gives -1.
Fetch(buf, from, n) ==
    [i \in 1..n |-> IF from + i <= Len(buf) THEN buf[from + i] ELSE 0 - 1]

\* The state of the loop of ZIP_Read: the handle, the request, the count rd
\* of bytes delivered so far, the bytes stored through outbuf, and how the
\* loop stands ("loop", or "ok" / "fatal" once it has left).
Loop(hh, sz, rd, out, outcome) ==
    [h |-> hh, sz |-> sz, rd |-> rd, out |-> out, outcome |-> outcome]

\* Lines 377-395: deliver from the output buffer once it is full or the
\* stream has ended.
ZIP_Copy(a) ==
    LET p == a.h.zip
        ncpy == Min(ToSizeT(p.p_out - p.out_read_ptr), ToSizeT(a.sz - a.rd))
        drained == p.out_read_ptr + ncpy >= p.p_out
        hA == [a.h EXCEPT !.offs = @ + ncpy,
                          !.zip.out_read_ptr = IF drained THEN 0 ELSE @ + ncpy,
                          !.zip.p_out = IF drained THEN 0 ELSE @]
    IN  IF p.p_out >= p.bsz_out \/ p.eof_flag
        THEN Loop(hA, a.sz, a.rd + ncpy,
                  a.out \o Fetch(p.outbuf, p.out_read_ptr, ncpy),
                  IF a.rd + ncpy >= a.sz \/ (hA.zip.p_out = 0 /\ p.eof_flag)
                  THEN "ok" ELSE "loop")
        ELSE a

\* Lines 397-409: refill the input buffer once it is consumed.
ZIP_Refill(a) ==
    LET p == a.h.zip
        want == ToSizeT(Min(p.bsz_in, env.comp_size - p.foffs_in))
        from == a.h.pak_offset + p.foffs_in
        got == ZIP_LowLevelRead(from, want)
    IN  IF p.p_in < p.readsz_in
        THEN a
        ELSE IF got # want
        THEN [a EXCEPT !.outcome = "fatal"]
        ELSE [a EXCEPT !.h.fpos = from + got,
                       !.h.zip.readsz_in = got,
                       !.h.zip.p_in = 0,
                       !.h.zip.foffs_in = @ + got,
                       !.h.zip.inbuf = Store(@, 0, ArchiveBytes(from, got))]

\* The flags of line 417: ?: binds weaker than |.
ZIP_Flags(p) ==
    IF env.comp_size >= p.foffs_in
    THEN {"TINFL_FLAG_HAS_MORE_INPUT"}
    ELSE {"TINFL_FLAG_USING_NON_WRAPPING_OUTPUT_BUF"}

\* Lines 419-425: account for what one call of the decoder did.
ZIP_Account(a, d) ==
    [a EXCEPT !.h.zip.infl = d.infl,
              !.h.zip.p_in = @ + d.szin,
              !.h.zip.outbuf = Store(@, a.h.zip.p_out, d.out),
              !.h.zip.p_out = @ + Len(d.out),
              !.h.zip.foffs_out = @ + Len(d.out),
              !.h.zip.eof_flag = (d.status = "TINFL_STATUS_DONE"),
              !.outcome = IF TinflFailed(d.status) THEN "fatal" ELSE "loop"]

\* Lines 411-425: one call of the decoder.
ZIP_Inflate(a) ==
    LET p == a.h.zip
    IN  Strict(LAMBDA d : ZIP_Account(a, d),
               tinfl_decompress(p.infl,
                                SubSeq(p.inbuf, p.p_in + 1, p.readsz_in),
                                p.bsz_out - p.p_out, ZIP_Flags(p)))

\* One turn of the for (;;) of ZIP_Read.
ZIP_Turn(a) ==
    Strict(LAMBDA b :
              IF b.outcome # "loop" THEN b
              ELSE Strict(LAMBDA c :
                             IF c.outcome # "loop" THEN c ELSE ZIP_Inflate(c),
                          ZIP_Refill(b)),
           ZIP_Copy(a))

\* The for (;;) of ZIP_Read; a turn that changes nothing repeats for ever.
RECURSIVE ZIP_ReadLoop(_)
ZIP_ReadLoop(a) ==
    Strict(LAMBDA b :
              IF b.outcome # "loop" THEN b
              ELSE IF b = a THEN [b EXCEPT !.outcome = "hung"]
              ELSE ZIP_ReadLoop(b),
           ZIP_Turn(a))

\* The calls of the decoder one ZIP_Read makes, in order: the flags passed
\* and whether compressed bytes remained beyond those loaded.
RECURSIVE ZIP_Invocations(_)
ZIP_Invocations(a) ==
    LET b == ZIP_Copy(a)
        c == ZIP_Refill(b)
        d == ZIP_Inflate(c)
        invocation == [flags |-> ZIP_Flags(c.h.zip),
                       remain |-> c.h.zip.foffs_in < env.comp_size]
    IN  IF b.outcome # "loop" \/ c.outcome # "loop" THEN <<>>
        ELSE IF d.outcome # "loop" \/ d = a THEN <<invocation>>
        ELSE <<invocation>> \o ZIP_Invocations(d)

LoopResult(b) == Result(b.h, b.rd, b.out, b.outcome)

ZIP_Read(hh, sz) ==
    IF env.uncomp_size = 0 \/ sz = 0
    THEN Result(hh, 0, <<>>, "ok")
    ELSE LoopResult(ZIP_ReadLoop(Loop(hh, sz, 0, <<>>, "loop")))

\* handle->read (handle, NULL, cnt) == cnt ? 0 : -1
SkipResult(res, cnt) ==
    Strict(LAMBDA r : Result(r.h, IF r.ret = cnt THEN 0 ELSE 0 - 1, <<>>,
                             r.outcome),
           res)

\* ZIP_Seek whose restart keeps the old contents of the output buffer.
ZIP_Seek_StaleBuffer(hh, pos) ==
    LET p == hh.zip
        buf_start == hh.offs - p.out_read_ptr
    IN  IF pos >= buf_start /\ pos - buf_start <= p.p_out
        THEN Result([hh EXCEPT !.zip.out_read_ptr = ToSizeT(pos - buf_start)],
                    0, <<>>, "ok")
        ELSE IF pos > buf_start + p.p_out
        THEN LET skipcnt == ToSizeT(pos - hh.offs)
             IN  SkipResult(ZIP_Read(hh, skipcnt), skipcnt)
        ELSE LET h0 == [hh EXCEPT !.offs = 0,
                                  !.zip.out_read_ptr = 0,
                                  !.zip.readsz_in = 0, !.zip.foffs_out = 0,
                                  !.zip.foffs_in = 0, !.zip.eof_flag = FALSE,
                                  !.zip.infl = tinfl_init]
             IN  SkipResult(ZIP_Read(h0, ToSizeT(pos)), ToSizeT(pos))

\* ZIP_Seek without the branch for a target inside the output buffer.
ZIP_Seek_NoWindow(hh, pos) ==
    IF pos > hh.offs
    THEN LET skipcnt == ToSizeT(pos - hh.offs)
         IN  SkipResult(ZIP_Read(hh, skipcnt), skipcnt)
    ELSE LET h0 == [hh EXCEPT !.offs = 0,
                              !.zip.out_read_ptr = 0, !.zip.p_out = 0,
                              !.zip.readsz_in = 0, !.zip.foffs_out = 0,
                              !.zip.foffs_in = 0, !.zip.eof_flag = FALSE,
                              !.zip.infl = tinfl_init]
         IN  SkipResult(ZIP_Read(h0, ToSizeT(pos)), ToSizeT(pos))

ZIP_Seek(hh, pos) ==
    LET p == hh.zip
        buf_start == hh.offs - p.out_read_ptr
    IN  IF pos >= buf_start /\ pos - buf_start <= p.p_out
        THEN Result([hh EXCEPT !.zip.out_read_ptr = ToSizeT(pos - buf_start)],
                    0, <<>>, "ok")
        ELSE IF pos > buf_start + p.p_out
        THEN LET skipcnt == ToSizeT(pos - hh.offs)
             IN  SkipResult(ZIP_Read(hh, skipcnt), skipcnt)
        ELSE LET h0 == [hh EXCEPT !.offs = 0,
                                  !.zip.out_read_ptr = 0, !.zip.p_out = 0,
                                  !.zip.readsz_in = 0, !.zip.foffs_out = 0,
                                  !.zip.foffs_in = 0, !.zip.eof_flag = FALSE,
                                  !.zip.infl = tinfl_init]
             IN  SkipResult(ZIP_Read(h0, ToSizeT(pos)), ToSizeT(pos))

\* ZIP_Open without the comparison of the local header's signature.
ZIP_Open_AnySignature ==
    LET header_read == ZIP_LowLevelRead(env.local_header_ofs, 4) = 4
                       /\ ZIP_LowLevelRead(env.local_header_ofs + 26, 4) = 4
        pak_offset == env.local_header_ofs + 30 + env.name_len + env.extra_len
        base == [PAK_Open EXCEPT !.pak_offset = pak_offset,
                                 !.fpos = env.local_header_ofs + 30]
        bsz_in == Min(env.comp_size, MZ_ZIP_MAX_IO_BUF_SIZE \div 2)
        bsz_out == MZ_ZIP_MAX_IO_BUF_SIZE
    IN  IF ~env.supported \/ ~header_read
           \/ pak_offset + env.comp_size > env.file_len
        THEN Result(PAK_Open, 0, <<>>, "fatal")
        ELSE IF env.method # 0
        THEN Result([base EXCEPT !.read = "ZIP_Read", !.seek = "ZIP_Seek",
                         !.zip = [NoZip EXCEPT
                                     !.bsz_in = bsz_in, !.bsz_out = bsz_out,
                                     !.inbuf = [i \in 1..bsz_in |-> 0],
                                     !.outbuf = [i \in 1..bsz_out |-> 0],
                                     !.infl = tinfl_init]],
                    0, <<>>, "ok")
        ELSE Result(base, 0, <<>>, "ok")

\* ZIP_Open: the handle, or "fatal" for Sys_Error.
ZIP_Open ==
    LET header_read == ZIP_LowLevelRead(env.local_header_ofs, 4) = 4
                       /\ env.sig_ok
                       /\ ZIP_LowLevelRead(env.local_header_ofs + 26, 4) = 4
        pak_offset == env.local_header_ofs + 30 + env.name_len + env.extra_len
        base == [PAK_Open EXCEPT !.pak_offset = pak_offset,
                                 !.fpos = env.local_header_ofs + 30]
        bsz_in == Min(env.comp_size, MZ_ZIP_MAX_IO_BUF_SIZE \div 2)
        bsz_out == MZ_ZIP_MAX_IO_BUF_SIZE
    IN  IF ~env.supported \/ ~header_read
           \/ pak_offset + env.comp_size > env.file_len
        THEN Result(PAK_Open, 0, <<>>, "fatal")
        ELSE IF env.method # 0
        THEN Result([base EXCEPT !.read = "ZIP_Read", !.seek = "ZIP_Seek",
                         !.zip = [NoZip EXCEPT
                                     !.bsz_in = bsz_in, !.bsz_out = bsz_out,
                                     !.inbuf = [i \in 1..bsz_in |-> 0],
                                     !.outbuf = [i \in 1..bsz_out |-> 0],
                                     !.infl = tinfl_init]],
                    0, <<>>, "ok")
        ELSE Result(base, 0, <<>>, "ok")

(***************************************************************************)
(* Dispatch through the handle's function pointers.                        *)
(***************************************************************************)
CallFileSize(hh) ==
    IF hh.filesize = "FS_FileSize" THEN FS_FileSize(hh) ELSE PAK_FileSize(hh)

CallRead(hh, sz) ==
    CASE hh.read = "FS_Read" -> FS_Read(hh, sz)
      [] hh.read = "ZIP_Read" -> ZIP_Read(hh, sz)
      [] OTHER -> PAK_Read(hh, sz)

CallSeek(hh, pos) ==
    CASE hh.seek = "FS_Seek" -> FS_Seek(hh, pos)
      [] hh.seek = "ZIP_Seek" -> ZIP_Seek(hh, pos)
      [] OTHER -> PAK_Seek(hh, pos)

(***************************************************************************)
(* QFS_*: the front end.                                                   *)
(***************************************************************************)
QFS_Eof(hh) == hh.offs - hh.endtrim >= CallFileSize(hh) - hh.start

QFS_ReadFile(hh, size) ==
    LET filesize == CallFileSize(hh)
        clamped == IF hh.offs + size > filesize - hh.endtrim
                   THEN ToSizeT(filesize - hh.endtrim)
                   ELSE size
    IN  CallRead(hh, clamped)

QFS_FileSize(hh) == CallFileSize(hh) - hh.start - hh.endtrim

QFS_Tell(hh) == hh.offs - hh.start

\* The position a seek asks for, in raw coordinates (actual_pos).
QFS_Seek_Target(hh, offs, whence) ==
    CASE whence = "SEEK_SET" -> hh.start + offs
      [] whence = "SEEK_CUR" -> hh.start + hh.offs + offs
      [] whence = "SEEK_END" -> CallFileSize(hh) - hh.endtrim + offs
      [] OTHER -> 0

\* QFS_Seek without the test of the upper end of the region.
QFS_Seek_PastEnd(hh, offs, whence) ==
    LET actual_pos == QFS_Seek_Target(hh, offs, whence)
    IN  IF whence \notin {"SEEK_SET", "SEEK_CUR", "SEEK_END"}
        THEN Result(hh, 0 - 1, <<>>, "ok")
        ELSE IF actual_pos < hh.start
        THEN Result(hh, 0 - 1, <<>>, "ok")
        ELSE Strict(LAMBDA r :
                       IF r.outcome = "ok" /\ r.ret = 0
                       THEN Result([r.h EXCEPT !.offs = actual_pos],
                                   0, <<>>, "ok")
                       ELSE Result(r.h, 0 - 1, <<>>, r.outcome),
                    CallSeek(hh, actual_pos))

QFS_Seek(hh, offs, whence) ==
    LET actual_pos ==
            CASE whence = "SEEK_SET" -> hh.start + offs
              [] whence = "SEEK_CUR" -> hh.start + hh.offs + offs
              [] whence = "SEEK_END" -> CallFileSize(hh) - hh.endtrim + offs
              [] OTHER -> 0
    IN  IF whence \notin {"SEEK_SET", "SEEK_CUR", "SEEK_END"}
        THEN Result(hh, 0 - 1, <<>>, "ok")
        ELSE IF actual_pos < hh.start
                \/ actual_pos > CallFileSize(hh) - (hh.start + hh.endtrim)
        THEN Result(hh, 0 - 1, <<>>, "ok")
        ELSE Strict(LAMBDA r :
                       IF r.outcome = "ok" /\ r.ret = 0
                       THEN Result([r.h EXCEPT !.offs = actual_pos],
                                   0, <<>>, "ok")
                       ELSE Result(r.h, 0 - 1, <<>>, r.outcome),
                    CallSeek(hh, actual_pos))

\* return handle->seek (handle, pos) == 0;
SeekedOk(res) ==
    Strict(LAMBDA r : Result(r.h, r.outcome = "ok" /\ r.ret = 0, <<>>,
                             r.outcome),
           res)

QFS_IgnoreBytes(hh, cut, whence) ==
    LET filesize == CallFileSize(hh)
        branch ==
            CASE whence = "SEEK_SET" /\ cut <= filesize - hh.endtrim -> "start"
              [] whence = "SEEK_END" /\ cut <= filesize - hh.start -> "endtrim"
              [] whence = "SEEK_SET" /\ cut = 0 -> "reset"
              [] OTHER -> "refuse"
        h1 == CASE branch = "start" -> [hh EXCEPT !.start = cut]
                [] branch = "endtrim" -> [hh EXCEPT !.endtrim = cut]
                [] branch = "reset" -> [hh EXCEPT !.start = 0, !.endtrim = 0]
                [] OTHER -> hh
    IN  IF branch = "refuse"
        THEN Result(hh, FALSE, <<>>, "ok")
        ELSE IF h1.offs < h1.start
        THEN SeekedOk(CallSeek(h1, h1.start))
        ELSE IF h1.offs > h1.start - h1.endtrim
        THEN SeekedOk(CallSeek(h1, filesize - h1.start - h1.endtrim))
        ELSE Result(h1, FALSE, <<>>, "ok")

(***************************************************************************)
(* The state machine.                                                      *)
(***************************************************************************)
Sizes == 0..(MaxRaw + 1)
SeekOffsets == (0 - MaxRaw)..(MaxRaw + 1)
Cuts == 0..(MaxRaw + 1)

(***************************************************************************)
(* QFS_GetChar and QFS_GetLine.  The bytes a read returns stand for the    *)
(* characters the variable text has at their raw positions: 'a', '\n',     *)
(* '\r' and NUL.                                                           *)
(***************************************************************************)
Chars == {97, 10, 13, 0}

\* The character at a raw position of the resource.
CharAt(txt, p) == IF p \in 0..(MaxText - 1) THEN txt[p] ELSE 97

PlainText == [p \in 0..(MaxText - 1) |-> 97]
Texts == [0..(MaxText - 1) -> Chars]

\* The raw position of the resource a byte returned by a read comes from.
RawPos(b) ==
    CASE env.kind = "loose" -> b - LooseByte(0)
      [] env.kind = "pk3" /\ env.method # 0 -> b - Inflated(0)
      [] env.kind = "pk3" -> b - ArchiveByte(PayloadOrigin)
      [] OTHER -> b - ArchiveByte(env.filepos)

\* QFS_GetChar: a read of one byte; the character, or NUL and eof_flag when
\* the read did not return one byte.  No trim is in effect where this is
\* used, so that QFS_ReadFile never asks the backend for more than the one
\* byte ch has room for.
QFS_GetChar(hh, txt) ==
    Strict(LAMBDA r :
              [h |-> r.h, outcome |-> r.outcome, eof_flag |-> r.ret # 1,
               ch |-> IF r.ret = 1 THEN CharAt(txt, RawPos(r.buf[1])) ELSE 0],
           QFS_ReadFile(hh, 1))

\* The loop of QFS_GetLine with o = Len(buf) characters copied so far.
RECURSIVE GetLineLoop(_, _, _, _)
GetLineLoop(hh, txt, buf, bufsz) ==
    IF ~(Len(buf) < bufsz - 1)
    THEN Result(hh, Len(buf), Append(buf, 0), "ok")
    ELSE Strict(LAMBDA g :
                   IF g.outcome # "ok" THEN Result(g.h, 0, buf, g.outcome)
                   ELSE IF g.ch = 10 \/ g.ch = 0 \/ g.eof_flag
                   THEN Result(g.h, Len(buf), Append(buf, 0), "ok")
                   ELSE IF g.ch # 13
                   THEN GetLineLoop(g.h, txt, Append(buf, g.ch), bufsz)
                   ELSE GetLineLoop(g.h, txt, buf, bufsz),
                QFS_GetChar(hh, txt))

\* A variant that fills all bufsz bytes of buf with characters.
QFS_GetLine_Overrun(hh, txt, bufsz) ==
    IF bufsz < 1 THEN Result(hh, 0, <<>>, "ok")
    ELSE GetLineLoop(hh, txt, <<>>, bufsz + 1)

\* QFS_GetLine: what is written to buf (nothing when bufsz is 0), and the
\* count returned.
QFS_GetLine(hh, txt, bufsz) ==
    IF bufsz < 1 THEN Result(hh, 0, <<>>, "ok")
    ELSE GetLineLoop(hh, txt, <<>>, bufsz)

(***************************************************************************)
(* The pack table: QFS_RegisterPack, QFS_GetPack, QFS_FreePack,            *)
(* QFS_Shutdown, the loaders, and QFS_FindFile over the search path.       *)
(* Names are sequences of bytes.                                           *)
(***************************************************************************)
\* Number of slots of packs[] that hold packs (32 in the source; slot 0 is a
\* placeholder).
MAX_PACK_FILES == 3

\* The longest search path built.
MaxPath == 3

\* The longest raw name of an entry of a .pk3.
MaxName == 3

MAX_FILES_IN_PACK == 2048

\* sizeof (dpackfile_t)
DPACKFILE_SIZE == 64

\* sizeof (packfile_t.name), and sizeof (buf) in QFS_LoadPK3File (64 and 512
\* in the source).
MAX_QPATH == 5
MZ_ZIP_MAX_ARCHIVE_FILENAME_SIZE == 7

\* The largest int (2^31 - 1 in the source), scaled so that a size above it
\* can be written.
INT_MAX == 65535

\* A slot without a pack, and a pack_t.
NULL_PACK == [filename |-> "NULL", pakver |-> 0, numfiles |-> 0, files |-> <<>>]

Pack(filename, pakver, files) ==
    [filename |-> filename, pakver |-> pakver, numfiles |-> Len(files),
     files |-> files]

packfile_t(name, filepos, filelen) ==
    [name |-> name, filepos |-> filepos, filelen |-> filelen]

NoPacks == [i \in 0..MAX_PACK_FILES |-> NULL_PACK]

\* What a call did: the table it leaves, its return value, how it ended
\* ("ok", or "fatal" for Sys_Error), a warning printed, the resources
\* released, in order.
Done(tbl, ret, outcome, warned, released) ==
    [packs |-> tbl, ret |-> ret, outcome |-> outcome, warned |-> warned,
     released |-> released]

Released(what, filename) == [what |-> what, of |-> filename]

\* QFS_FreePackHandle (pack): what it releases.
QFS_FreePackHandle(pack) ==
    IF pack = NULL_PACK THEN <<>>
    ELSE <<Released("fclose", pack.filename)>>
         \o (IF pack.pakver = 3
             THEN <<Released("mz_zip_reader_end", pack.filename),
                    Released("free impl_data", pack.filename)>>
             ELSE <<>>)
         \o <<Released("free files", pack.filename),
               Released("free pack", pack.filename)>>

\* The slot the loop of QFS_RegisterPack stops at, 0 when it runs through.
\* A variant that takes the highest empty slot.
FirstFree_Highest(tbl) ==
    IF \E i \in 1..MAX_PACK_FILES : tbl[i] = NULL_PACK
    THEN CHOOSE i \in 1..MAX_PACK_FILES :
            /\ tbl[i] = NULL_PACK
            /\ \A j \in (i + 1)..MAX_PACK_FILES : tbl[j] # NULL_PACK
    ELSE 0

FirstFree(tbl) ==
    IF \E i \in 1..MAX_PACK_FILES : tbl[i] = NULL_PACK
    THEN CHOOSE i \in 1..MAX_PACK_FILES :
            /\ tbl[i] = NULL_PACK
            /\ \A j \in 1..(i - 1) : tbl[j] # NULL_PACK
    ELSE 0

QFS_RegisterPack(tbl, pack) ==
    LET i == FirstFree(tbl)
    IN  IF i # 0
        THEN Done([tbl EXCEPT ![i] = pack], i, "ok", FALSE, <<>>)
        ELSE Done(tbl, 0, "ok", TRUE, QFS_FreePackHandle(pack))

\* QFS_GetPack (num, unregister): the pack and the table it leaves.
QFS_GetPack(tbl, num, unregister) ==
    IF num > 0 /\ num < MAX_PACK_FILES
    THEN [pack |-> tbl[num],
          packs |-> IF unregister THEN [tbl EXCEPT ![num] = NULL_PACK] ELSE tbl]
    ELSE [pack |-> NULL_PACK, packs |-> tbl]

\* NULL is the name "NULL".
QFS_PackInfoName(tbl, packid) == QFS_GetPack(tbl, packid, FALSE).pack.filename

QFS_PackInfoNumFiles(tbl, packid) ==
    QFS_GetPack(tbl, packid, FALSE).pack.numfiles

QFS_FreePack(tbl, packid) ==
    LET g == QFS_GetPack(tbl, packid, TRUE)
    IN  Done(g.packs, 0, "ok", FALSE, QFS_FreePackHandle(g.pack))

RECURSIVE ShutdownFrom(_, _)
ShutdownFrom(tbl, i) ==
    IF i > MAX_PACK_FILES THEN <<>>
    ELSE QFS_FreePackHandle(tbl[i]) \o ShutdownFrom(tbl, i + 1)

QFS_Shutdown(tbl) ==
    Done([i \in 0..MAX_PACK_FILES |-> IF i >= 1 THEN NULL_PACK ELSE tbl[i]],
         0, "ok", FALSE, ShutdownFrom(tbl, 1))

(***************************************************************************)
(* The loaders.  A file on disk is described by what the loader reads of   *)
(* it: for a .pak the header and the directory, for a .pk3 what the zip    *)
(* reader reports of the central directory.                                *)
(***************************************************************************)
PakFile(filename, header_ok, dirofs, dirlen, dir) ==
    [filename |-> filename, ext |-> "pak", exists |-> TRUE,
     header_ok |-> header_ok, dirofs |-> dirofs, dirlen |-> dirlen,
     dir |-> dir, reader_ok |-> TRUE, entries |-> <<>>]

Pk3File(filename, ext, reader_ok, entries) ==
    [filename |-> filename, ext |-> ext, exists |-> TRUE,
     header_ok |-> TRUE, dirofs |-> 0, dirlen |-> 0,
     dir |-> <<>>, reader_ok |-> reader_ok, entries |-> entries]

\* An entry of a central directory, as mz_zip_reader_file_stat and
\* mz_zip_reader_get_filename report it.
ZipStat(name, is_directory, bit11, uncomp_size, stat_ok) ==
    [name |-> name, is_directory |-> is_directory, bit11 |-> bit11,
     uncomp_size |-> uncomp_size, stat_ok |-> stat_ok]

\* fread (info, 1, dirlen, packhandle): the bytes of directory in the file.
DirRead(f) == Min(f.dirlen, DPACKFILE_SIZE * Len(f.dir))

\* A variant that does not compare the magic of the header.
QFS_LoadPAKFile_AnyMagic(tbl, f) ==
    LET numpackfiles == f.dirlen \div DPACKFILE_SIZE
    IN  IF ~f.exists THEN Done(tbl, 0, "ok", FALSE, <<>>)
        ELSE IF f.dirlen < 0 \/ f.dirofs < 0
        THEN Done(tbl, 0, "fatal", FALSE, <<>>)
        ELSE IF numpackfiles = 0
        THEN Done(tbl, 0, "ok", TRUE, <<Released("fclose", f.filename)>>)
        ELSE IF numpackfiles > MAX_FILES_IN_PACK
        THEN Done(tbl, 0, "fatal", FALSE, <<>>)
        ELSE IF DirRead(f) # f.dirlen
        THEN Done(tbl, 0, "fatal", FALSE, <<>>)
        ELSE QFS_RegisterPack(tbl, Pack(f.filename, 1,
                                        SubSeq(f.dir, 1, numpackfiles)))

QFS_LoadPAKFile(tbl, f) ==
    LET numpackfiles == f.dirlen \div DPACKFILE_SIZE
    IN  IF ~f.exists THEN Done(tbl, 0, "ok", FALSE, <<>>)
        ELSE IF ~f.header_ok THEN Done(tbl, 0, "fatal", FALSE, <<>>)
        ELSE IF f.dirlen < 0 \/ f.dirofs < 0
        THEN Done(tbl, 0, "fatal", FALSE, <<>>)
        ELSE IF numpackfiles = 0
        THEN Done(tbl, 0, "ok", TRUE, <<Released("fclose", f.filename)>>)
        ELSE IF numpackfiles > MAX_FILES_IN_PACK
        THEN Done(tbl, 0, "fatal", FALSE, <<>>)
        ELSE IF DirRead(f) # f.dirlen
        THEN Done(tbl, 0, "fatal", FALSE, <<>>)
        ELSE QFS_RegisterPack(tbl, Pack(f.filename, 1,
                                        SubSeq(f.dir, 1, numpackfiles)))

\* q_strascii: no byte of the name is 0x80 or above.
q_strascii(name) == \A i \in 1..Len(name) : name[i] < 128

\* The UTF-8 encoding of the character an IBM437 byte stands for.
cp437_to_utf8(b) ==
    CASE b = 130 -> <<195, 169>>
      [] b = 176 -> <<226, 150, 145>>
      [] OTHER -> <<b>>

RECURSIVE UTF8_FromIBM437(_)
UTF8_FromIBM437(src) ==
    IF src = <<>> THEN <<>>
    ELSE cp437_to_utf8(Head(src)) \o UTF8_FromIBM437(Tail(src))

\* A variant that converts whatever bit 11 says.
PK3_Name_AnyFlag(st) ==
    LET raw == SubSeq(st.name, 1,
                      Min(Len(st.name), MZ_ZIP_MAX_ARCHIVE_FILENAME_SIZE - 1))
        legacy == ~q_strascii(raw)
        conv == UTF8_FromIBM437(raw)
        len == IF legacy THEN Len(conv) + 1 ELSE Len(raw) + 1
        buf == IF legacy /\ len <= MZ_ZIP_MAX_ARCHIVE_FILENAME_SIZE
               THEN conv ELSE raw
    IN  IF len >= MAX_QPATH
        THEN [outcome |-> "fatal", name |-> <<>>]
        ELSE [outcome |-> "ok",
              name |-> SubSeq(buf, 1, Min(Len(buf), MAX_QPATH - 1))]

\* The name QFS_LoadPK3File stores for an entry: buf and len after
\* mz_zip_reader_get_filename and the conversion, each len counting the
\* terminating NUL; "fatal" when len does not fit packfile_t.name.
PK3_Name(st) ==
    LET raw == SubSeq(st.name, 1,
                      Min(Len(st.name), MZ_ZIP_MAX_ARCHIVE_FILENAME_SIZE - 1))
        legacy == ~st.bit11 /\ ~q_strascii(raw)
        conv == UTF8_FromIBM437(raw)
        len == IF legacy THEN Len(conv) + 1 ELSE Len(raw) + 1
        buf == IF legacy /\ len <= MZ_ZIP_MAX_ARCHIVE_FILENAME_SIZE
               THEN conv ELSE raw
    IN  IF len >= MAX_QPATH
        THEN [outcome |-> "fatal", name |-> <<>>]
        ELSE [outcome |-> "ok",
              name |-> SubSeq(buf, 1, Min(Len(buf), MAX_QPATH - 1))]

\* The loop of QFS_LoadPK3File over the central directory from entry i on
\* (1-based here): the entries stored, or "fatal".
RECURSIVE PK3_Entries(_, _, _)
PK3_Entries(entries, i, newfiles) ==
    IF i > Len(entries) THEN [outcome |-> "ok", files |-> newfiles]
    ELSE LET st == entries[i]
         IN  IF ~st.stat_ok THEN [outcome |-> "fatal", files |-> newfiles]
             ELSE IF st.is_directory
             THEN PK3_Entries(entries, i + 1, newfiles)
             ELSE IF st.uncomp_size > INT_MAX
             THEN [outcome |-> "fatal", files |-> newfiles]
             ELSE IF PK3_Name(st).outcome = "fatal"
             THEN [outcome |-> "fatal", files |-> newfiles]
             ELSE PK3_Entries(entries, i + 1,
                     Append(newfiles, packfile_t(PK3_Name(st).name, i - 1,
                                                 st.uncomp_size)))

QFS_LoadPK3File(tbl, f) ==
    LET loaded == PK3_Entries(f.entries, 1, <<>>)
    IN  IF ~f.exists THEN Done(tbl, 0, "ok", FALSE, <<>>)
        ELSE IF ~f.reader_ok THEN Done(tbl, 0, "fatal", FALSE, <<>>)
        ELSE IF Len(f.entries) = 0
        THEN Done(tbl, 0, "ok", TRUE,
                  <<Released("fclose", f.filename),
                    Released("free impl_data", f.filename)>>)
        ELSE IF loaded.outcome = "fatal"
        THEN Done(tbl, 0, "fatal", FALSE, <<>>)
        ELSE QFS_RegisterPack(tbl, Pack(f.filename, 3, loaded.files))

QFS_LoadPackFile(tbl, f) ==
    IF f.ext \in {"pk3", "PK3"}
    THEN QFS_LoadPK3File(tbl, f)
    ELSE QFS_LoadPAKFile(tbl, f)

(***************************************************************************)
(* QFS_FindFile.  An element of the search path names a pack (pack # 0) or *)
(* a directory; DirFiles gives the regular files of the directories.       *)
(***************************************************************************)
searchpath_t(path_id, pack, filename) ==
    [path_id |-> path_id, pack |-> pack, filename |-> filename]

N_x == <<120>>
N_y == <<121>>
N_dx == <<100, 47, 120>>

DirFiles(dir) ==
    CASE dir = "id1" -> {N_x}
      [] dir = "mod" -> {N_dx, N_y}
      [] OTHER -> {}

\* Sys_filelength of the loose file <dir>/<name>.
LooseLen(dir, filename) == IF dir = "id1" THEN 1 ELSE Len(filename)

\* strchr (filename, '/') || strchr (filename, '\\')
HasSeparator(filename) ==
    \E i \in 1..Len(filename) : filename[i] \in {47, 92}

\* The index (0-based, as in the source) of the first entry of the pack
\* with exactly this name, or -1.
EntryIndex(pak, filename) ==
    IF \E i \in 1..pak.numfiles : pak.files[i].name = filename
    THEN (CHOOSE i \in 1..pak.numfiles :
             /\ pak.files[i].name = filename
             /\ \A j \in 1..(i - 1) : pak.files[j].name # filename) - 1
    ELSE 0 - 1

\* What QFS_FindFile returns: the length (or -1), the path_id written, the
\* element of the path it stopped at (0: none), the entry opened in the pack
\* found there, and "fatal" for Sys_Error.
Found(ret, path_id, at, pack, idx, outcome) ==
    [ret |-> ret, path_id |-> path_id, at |-> at, pack |-> pack, idx |-> idx,
     outcome |-> outcome]

\* The loop of QFS_FindFile from element k of the path on.  fopen_ok tells
\* whether FS_Open can open the loose file.
RECURSIVE FindFrom(_, _, _, _, _, _)
FindFrom(tbl, path, k, filename, registered, fopen_ok) ==
    IF k > Len(path) THEN Found(0 - 1, 0, 0, NULL_PACK, 0 - 1, "ok")
    ELSE LET search == path[k]
             pak == QFS_GetPack(tbl, search.pack, FALSE).pack
             i == EntryIndex(pak, filename)
             next == FindFrom(tbl, path, k + 1, filename, registered,
                              fopen_ok)
         IN  IF search.pack # 0
             THEN IF pak = NULL_PACK
                  THEN Found(0 - 1, 0, k, NULL_PACK, 0 - 1, "fatal")
                  ELSE IF i >= 0
                  THEN Found(pak.files[i + 1].filelen, search.path_id, k,
                             pak, i, "ok")
                  ELSE next
             ELSE IF ~registered /\ HasSeparator(filename) THEN next
             ELSE IF filename \notin DirFiles(search.filename) THEN next
             ELSE IF ~fopen_ok
             THEN Found(0 - 1, search.path_id, k, NULL_PACK, 0 - 1, "ok")
             ELSE Found(LooseLen(search.filename, filename), search.path_id,
                        k, NULL_PACK, 0 - 1, "ok")

\* The search path from its last element to its first.
RECURSIVE Reversed(_)
Reversed(path) ==
    IF path = <<>> THEN <<>> ELSE Append(Reversed(Tail(path)), Head(path))

\* A variant that walks the search path from its last element.
QFS_FindFile_Oldest(tbl, path, filename, registered, fopen_ok) ==
    FindFrom(tbl, Reversed(path), 1, filename, registered, fopen_ok)

QFS_FindFile(tbl, path, filename, registered, fopen_ok) ==
    FindFrom(tbl, path, 1, filename, registered, fopen_ok)

\* The record of an operation: its arguments, what it returned, the bytes it
\* stored through buf, and the handle it was called on.
Op(op, arg, whence, r, pre) ==
    [op |-> op, arg |-> arg, whence |-> whence, ret |-> r.ret, buf |-> r.buf,
     pre |-> pre]

NoOp == Op("none", 0, "SEEK_SET", Result(QFS_AllocHandle, 0, <<>>, "ok"),
           QFS_AllocHandle)

\* A call into the pack table: the file or id it was given, what it did
\* (a Done record) and the table it found.
Call(op, arg, file, res, pre) ==
    [op |-> op, arg |-> arg, file |-> file, res |-> res, pre |-> pre]

NoFile == [Pk3File("", "", TRUE, <<>>) EXCEPT !.exists = FALSE]

NoCall == Call("none", 0, NoFile, Done(NoPacks, 0, "ok", FALSE, <<>>), NoPacks)

\* The threads that hold a handle on the pack.
NumThreads == 2

NoThread ==
    [pc |-> "closed", kind |-> "none", reopen |-> FALSE, file |-> 0,
     pak_offset |-> 0, filelen |-> 0, offs |-> 0,
     from |-> 0, want |-> 0, buf |-> <<>>]

(***************************************************************************)
(* Allocation.  A block or FILE* is named by its owner (0 for the          *)
(* registered pack, k for the handle of holder k) and its role; live holds *)
(* those allocated and not released, freed counts the releases of each.    *)
(***************************************************************************)
NULL == <<0, "NULL">>

Roles == {"pack", "handle", "impl_data", "files", "qfshandle", "zip",
          "inbuf", "outbuf"}

Blocks == (0..NumThreads) \X Roles

\* A pack_t: the registered one, or the shallow copy a handle owns.
pack_t(file, files, impl_data, pakver) ==
    [handle |-> file, files |-> files, impl_data |-> impl_data,
     pakver |-> pakver]

NoPackT == pack_t(NULL, NULL, NULL, 0)

\* A qfshandle_t, as far as closing it goes.
NoHolder ==
    [state |-> "none", data |-> NULL, impl_data |-> NULL,
     owns_data |-> FALSE, close |-> "NULL", deflated |-> FALSE]

NoUse == [op |-> "none", k |-> 0, touched |-> {}, ret |-> "none"]

NoHeap ==
    [slot |-> NULL,
     live |-> {},
     freed |-> [b \in Blocks |-> 0],
     structs |-> [o \in 0..NumThreads |-> NoPackT],
     handles |-> [k \in 1..NumThreads |-> NoHolder],
     last |-> NoUse]

\* calloc, malloc, fopen: the block is live.
Alloc(hp, b) == [hp EXCEPT !.live = @ \cup {b}]

\* free, fclose, mz_zip_reader_end: one more release of the block.
Free(hp, b) ==
    [hp EXCEPT !.live = @ \ {b}, !.freed[b] = Min(@ + 1, 2)]

\* QFS_FreePackHandle on the pack_t of owner o.
FreePackHandle(hp, o) ==
    LET s == hp.structs[o]
        a == Free(hp, s.handle)
        b == IF s.impl_data # NULL THEN Free(a, s.impl_data) ELSE a
        c == IF s.files # NULL THEN Free(b, s.files) ELSE b
    IN  Free(c, <<o, "pack">>)

\* A variant of PAK_Close that leaves the copy's pointer to the entries.
PAK_Close_FreesEntries(hp, k) ==
    LET hd == hp.handles[k]
        a == IF hd.owns_data THEN FreePackHandle(hp, k) ELSE hp
        b == IF hd.impl_data # NULL THEN Free(a, hd.impl_data) ELSE a
    IN  [Free(b, <<k, "qfshandle">>) EXCEPT !.handles[k].state = "closed"]

PAK_Close(hp, k) ==
    LET hd == hp.handles[k]
        a == IF hd.owns_data
             THEN FreePackHandle([hp EXCEPT !.structs[k].files = NULL], k)
             ELSE hp
        b == IF hd.impl_data # NULL THEN Free(a, hd.impl_data) ELSE a
    IN  [Free(b, <<k, "qfshandle">>) EXCEPT !.handles[k].state = "closed"]

ZIP_Close(hp, k) ==
    LET zip == hp.handles[k].impl_data
        a == [hp EXCEPT !.handles[k].impl_data = NULL]
        b == IF zip # NULL
             THEN Free(Free(Free(a, <<k, "inbuf">>), <<k, "outbuf">>), zip)
             ELSE a
    IN  PAK_Close(b, k)

\* QFS_CloseFile: handle->close (handle).
QFS_CloseFile(hp, k) ==
    IF hp.handles[k].close = "ZIP_Close"
    THEN ZIP_Close(hp, k) ELSE PAK_Close(hp, k)

\* PAK_Open, as far as it allocates: the handle, and for reopen_pack a
\* shallow copy of the pack_t with a FILE* of its own.
PAK_OpenBlocks(hp, k, reopen_pack) ==
    LET a == Alloc(hp, <<k, "qfshandle">>)
        own == [a EXCEPT !.handles[k] =
                   [NoHolder EXCEPT !.state = "open", !.close = "PAK_Close"]]
    IN  IF reopen_pack
        THEN [Alloc(Alloc(own, <<k, "pack">>), <<k, "handle">>) EXCEPT
                 !.structs[k] = [hp.structs[0] EXCEPT
                                    !.handle = <<k, "handle">>],
                 !.handles[k].owns_data = TRUE,
                 !.handles[k].data = <<k, "pack">>]
        ELSE [own EXCEPT !.handles[k].data = <<0, "pack">>]

\* ZIP_Open, as far as it allocates: the inflator state, a zip reader for
\* the copy, and the buffers of a deflated entry.
ZIP_OpenBlocks(hp, k, reopen_pack, method) ==
    LET a == [PAK_OpenBlocks(hp, k, reopen_pack) EXCEPT
                 !.handles[k].close = "ZIP_Close"]
        b == Alloc(a, <<k, "zip">>)
        c == IF reopen_pack
             THEN [Alloc(b, <<k, "impl_data">>) EXCEPT
                      !.structs[k].impl_data = <<k, "impl_data">>]
             ELSE b
    IN  IF method # 0
        THEN [Alloc(Alloc(c, <<k, "inbuf">>), <<k, "outbuf">>) EXCEPT
                 !.handles[k].impl_data = <<k, "zip">>,
                 !.handles[k].deflated = TRUE]
        ELSE Free(c, <<k, "zip">>)

\* The blocks QFS_FileSize, QFS_ReadFile and QFS_Seek dereference through
\* the handle of holder k.
Touched(hp, k, op) ==
    LET hd == hp.handles[k]
        s == hp.structs[hd.data[1]]
        filesize == {<<k, "qfshandle">>, hd.data, s.files}
        inflator == {hd.impl_data, <<k, "inbuf">>, <<k, "outbuf">>}
    IN  CASE op = "size" -> filesize
          [] op = "seek" ->
               filesize \cup (IF hd.deflated THEN {hd.impl_data} ELSE {})
          [] OTHER ->
               filesize \cup {s.handle}
                  \cup (IF hd.deflated THEN inflator \cup {s.impl_data}
                        ELSE {})

\* Nothing is open, no pack is loaded, the search path is empty.
Start ==
    /\ env = NoEnv
    /\ h = QFS_AllocHandle
    /\ status = "none"
    /\ last = NoOp
    /\ packs = NoPacks
    /\ com_searchpaths = <<>>
    /\ call = NoCall
    /\ streams = [f \in 0..NumThreads |-> 0]
    /\ threads = [t \in 1..NumThreads |-> NoThread]
    /\ heap = NoHeap

Init ==
    /\ Start
    /\ text = PlainText

\* An operation has run: the handle it leaves, how it ended, and its record.
Finish(op, arg, whence, res, pre) ==
    \E r \in {res} :
       /\ r.h.offs \in (0 - MaxOffs)..MaxOffs
       /\ h' = r.h
       /\ status' = IF r.outcome = "ok" THEN "returned" ELSE r.outcome
       /\ last' = Op(op, arg, whence, r, pre)
       /\ UNCHANGED not_handle

\* QFS_FindFile on a directory hit: FS_Open of a file of any length.
OpenLoose ==
    /\ status = "none"
    /\ \E len \in 0..MaxRaw :
          env' = [NoEnv EXCEPT !.kind = "loose", !.file_len = len]
    /\ Finish("open", 0, "SEEK_SET", Result(FS_Open', 0, <<>>, "ok"), h)

\* QFS_FindFile on a hit in a .pak: PAK_Open of an entry of the directory.
\* The loader checks neither filepos nor filelen against the file length,
\* so the entry may reach past the end of the archive.
OpenPak ==
    /\ status = "none"
    /\ \E pos \in PAK_HEADER_SIZE..(PAK_HEADER_SIZE + 1), len \in 0..MaxRaw :
          env' = [NoEnv EXCEPT !.kind = "pak", !.file_len = PackFileLen,
                               !.filepos = pos, !.filelen = len]
    /\ Finish("open", 0, "SEEK_SET", Result(PAK_Open', 0, <<>>, "ok"), h)

\* QFS_FindFile on a hit in a .pk3: ZIP_Open of an entry of the central
\* directory, stored (method 0) or deflated (method 8).  The loader sets
\* filelen to the uncompressed size; a stored entry is as long compressed.
OpenZip ==
    /\ status = "none"
    /\ \E method \in {0, 8}, extra \in 0..1, len \in 0..MaxRaw,
          comp \in 1..MaxComp, sig \in BOOLEAN, sup \in BOOLEAN :
          /\ method = 0 => comp = 1
          /\ ~(sig /\ sup) => (len = 1 /\ comp = 1 /\ extra = 0)
          /\ env' = [NoEnv EXCEPT !.kind = "pk3", !.file_len = Pk3FileLen,
                                  !.filelen = len, !.uncomp_size = len,
                                  !.comp_size = IF method = 0 THEN len ELSE comp,
                                  !.name_len = 1, !.extra_len = extra,
                                  !.method = method, !.sig_ok = sig,
                                  !.supported = sup]
    /\ Finish("open", 0, "SEEK_SET", ZIP_Open', h)

Read ==
    /\ status = "open"
    /\ \E n \in Sizes : Finish("read", n, "SEEK_SET", QFS_ReadFile(h, n), h)
    /\ UNCHANGED env

Seek ==
    /\ status = "open"
    /\ \E offs \in SeekOffsets, whence \in Whences :
          Finish("seek", offs, whence, QFS_Seek(h, offs, whence), h)
    /\ UNCHANGED env

IgnoreBytes ==
    /\ status = "open"
    /\ \E cut \in Cuts, whence \in Whences :
          Finish("ignore", cut, whence, QFS_IgnoreBytes(h, cut, whence), h)
    /\ UNCHANGED env

\* The caller has taken the result; its next call starts from the handle.
Return ==
    /\ status = "returned"
    /\ status' = "open"
    /\ last' = NoOp
    /\ UNCHANGED <<env, h>>
    /\ UNCHANGED not_handle

Next == OpenLoose \/ OpenPak \/ OpenZip \/ Read \/ Seek \/ IgnoreBytes \/ Return

Spec == Init /\ [][Next]_vars

(***************************************************************************)
(* The pack table: loading, freeing and shutting down.                     *)
(***************************************************************************)
\* The archives on disk.  pak0 and pak1 both hold "x"; mod.pk3 holds a
\* directory entry and a file; dirs.pk3 holds directory entries only.
Pak0 == PakFile("pak0.pak", TRUE, PAK_HEADER_SIZE, DPACKFILE_SIZE,
                <<packfile_t(N_x, 12, 3)>>)
Pak1 == PakFile("pak1.pak", TRUE, PAK_HEADER_SIZE, 2 * DPACKFILE_SIZE,
                <<packfile_t(N_y, 12, 1), packfile_t(N_x, 13, 2)>>)
ModPk3 == Pk3File("mod.pk3", "pk3", TRUE,
                  <<ZipStat(<<100, 47>>, TRUE, FALSE, 0, TRUE),
                    ZipStat(N_dx, FALSE, TRUE, 2, TRUE)>>)
DirsPk3 == Pk3File("dirs.pk3", "PK3", TRUE,
                   <<ZipStat(<<100, 47>>, TRUE, FALSE, 0, TRUE)>>)
EmptyPk3 == Pk3File("empty.pk3", "pk3", TRUE, <<>>)

\* Headers of every kind the checks of QFS_LoadPAKFile tell apart; the
\* file ends after the header, or holds the one entry of its directory.
DirLens == {0 - DPACKFILE_SIZE, 0 - 1, 0, DPACKFILE_SIZE - 1, DPACKFILE_SIZE,
            MAX_FILES_IN_PACK * DPACKFILE_SIZE,
            (MAX_FILES_IN_PACK + 1) * DPACKFILE_SIZE}
OddPaks ==
    {PakFile("odd.pak", magic, dirofs, dirlen, dir) :
        magic \in BOOLEAN, dirofs \in {0 - 1, PAK_HEADER_SIZE},
        dirlen \in DirLens, dir \in {<<>>, <<packfile_t(N_y, 12, 1)>>}}

\* Archives the zip reader rejects, or with an entry the loader rejects.
OddPk3s ==
    {Pk3File("odd.pk3", "pk3", FALSE, <<>>),
     Pk3File("odd.pk3", "pk3", TRUE, <<ZipStat(N_x, FALSE, TRUE, 1, FALSE)>>),
     Pk3File("odd.pk3", "pk3", TRUE,
             <<ZipStat(N_x, FALSE, TRUE, INT_MAX + 1, TRUE)>>),
     Pk3File("odd.pk3", "pk3", TRUE,
             <<ZipStat(N_x, FALSE, TRUE, INT_MAX, TRUE)>>)}

Missing == {[Pak0 EXCEPT !.exists = FALSE], [ModPk3 EXCEPT !.exists = FALSE]}

PackFiles == {Pak0, Pak1, ModPk3, DirsPk3, EmptyPk3}
                \cup OddPaks \cup OddPk3s \cup Missing

\* A call has run on the pack table.
Called(op, arg, file, res) ==
    /\ call.res.outcome # "fatal"
    /\ packs' = res.packs
    /\ call' = Call(op, arg, file, res, packs)
    /\ UNCHANGED com_searchpaths
    /\ UNCHANGED not_registry

LoadPackFile ==
    \E f \in PackFiles : Called("load", 0, f, QFS_LoadPackFile(packs, f))

FreePack ==
    \E packid \in 0..(MAX_PACK_FILES + 1) :
        Called("free", packid, NoFile, QFS_FreePack(packs, packid))

Shutdown == Called("shutdown", 0, NoFile, QFS_Shutdown(packs))

NextRegistry == LoadPackFile \/ FreePack \/ Shutdown

RegistrySpec == Init /\ [][NextRegistry]_vars

(***************************************************************************)
(* The search path and QFS_FindFile.  The list is built outside this file: *)
(* a game directory is added as a directory element, and each pack loaded  *)
(* from it as a pack element, always at the head of the list.              *)
(***************************************************************************)
PathIds == 1..2
GameDirs == {"id1", "mod"}
MountFiles == {Pak0, Pak1, ModPk3}
FileNames == {N_x, N_y, N_dx, <<122>>}

AddPack ==
    /\ call.res.outcome # "fatal"
    /\ Len(com_searchpaths) < MaxPath
    /\ \E f \in MountFiles, path_id \in PathIds :
          LET res == QFS_LoadPackFile(packs, f)
          IN  /\ packs' = res.packs
              /\ call' = Call("load", path_id, f, res, packs)
              /\ com_searchpaths' =
                    IF res.ret # 0
                    THEN <<searchpath_t(path_id, res.ret, "")>>
                            \o com_searchpaths
                    ELSE com_searchpaths
    /\ UNCHANGED not_registry

AddDir ==
    /\ call.res.outcome # "fatal"
    /\ Len(com_searchpaths) < MaxPath
    /\ \E dir \in GameDirs, path_id \in PathIds :
          /\ com_searchpaths' = <<searchpath_t(path_id, 0, dir)>>
                                   \o com_searchpaths
          /\ call' = Call("adddir", path_id, NoFile,
                          Done(packs, 0, "ok", FALSE, <<>>), packs)
    /\ UNCHANGED packs
    /\ UNCHANGED not_registry

\* The file a hit of QFS_FindFile opens: the entry of the pack, or the loose
\* file.  A .pk3 of the search path holds its entries stored.
FoundEnv(found, file_len) ==
    IF found.pack = NULL_PACK
    THEN [NoEnv EXCEPT !.kind = "loose", !.file_len = file_len]
    ELSE LET e == found.pack.files[found.idx + 1]
         IN  IF found.pack.pakver = 3
             THEN [NoEnv EXCEPT !.kind = "pk3", !.file_len = Pk3FileLen,
                                !.filelen = e.filelen,
                                !.uncomp_size = e.filelen,
                                !.comp_size = e.filelen, !.name_len = 1]
             ELSE [NoEnv EXCEPT !.kind = "pak", !.file_len = PackFileLen,
                                !.filepos = e.filepos, !.filelen = e.filelen]

\* The arguments of a call of QFS_FindFile, and what the file system does.
FindArgs(filename, registered, fopen_ok) ==
    [filename |-> filename, registered |-> registered, fopen_ok |-> fopen_ok]

\* QFS_FOpenFile: QFS_FindFile and, on a hit, the open function of the
\* element found.
FOpenFile ==
    /\ call.res.outcome # "fatal"
    /\ status = "none"
    /\ com_searchpaths # <<>>
    /\ \E filename \in FileNames, registered \in BOOLEAN, fopen_ok \in BOOLEAN :
          LET found == QFS_FindFile(packs, com_searchpaths, filename,
                                    registered, fopen_ok)
          IN  /\ call' = Call("find", FindArgs(filename, registered, fopen_ok),
                              NoFile, found, packs)
              /\ IF found.outcome = "ok" /\ found.ret >= 0
                 THEN /\ env' = FoundEnv(found, found.ret)
                      /\ h' = (CASE found.pack = NULL_PACK -> FS_Open'
                                 [] found.pack.pakver = 3 -> ZIP_Open'.h
                                 [] OTHER -> PAK_Open')
                      /\ status' = "returned"
                      /\ last' = Op("open", 0, "SEEK_SET",
                                    Result(h', 0, <<>>, "ok"), h)
                 ELSE UNCHANGED handle
    /\ UNCHANGED <<packs, com_searchpaths>>
    /\ UNCHANGED outside

NextSearch == AddPack \/ AddDir \/ FOpenFile

SearchSpec == Init /\ [][NextSearch]_vars

(***************************************************************************)
(* The names of the entries of a .pk3: archives of one or two files whose  *)
(* raw names are drawn from ASCII 'x', 0x82 (e acute in IBM437, two bytes  *)
(* of UTF-8) and 0xB0 (a shade block, three bytes), each loaded into an    *)
(* empty table.                                                            *)
(***************************************************************************)
NameBytes == {120, 130, 176}

RawNames(n) == UNION {[1..k -> NameBytes] : k \in 1..n}

NamedEntries(n) ==
    {ZipStat(name, FALSE, bit11, 1, TRUE) :
        name \in RawNames(n), bit11 \in BOOLEAN}

NamedPk3s ==
    {Pk3File("names.pk3", "pk3", TRUE, <<e>>) : e \in NamedEntries(MaxName)}
      \cup {Pk3File("names.pk3", "pk3", TRUE, <<e1, e2>>) :
               e1 \in NamedEntries(1), e2 \in NamedEntries(MaxName - 1)}

LoadNamedPk3 ==
    /\ packs = NoPacks
    /\ \E f \in NamedPk3s : Called("load", 0, f, QFS_LoadPackFile(packs, f))

NextNames == LoadNamedPk3 \/ Shutdown

NameSpec == Init /\ [][NextNames]_vars

(***************************************************************************)
(* The directory of a .pak: archives with a sound header and one or two    *)
(* entries whose filepos and filelen are any 32-bit values the file may    *)
(* hold, each loaded into an empty table.  The file ends with its          *)
(* directory.                                                              *)
(***************************************************************************)
PakLength(f) == f.dirofs + DPACKFILE_SIZE * Len(f.dir)

FilePositions ==
    {0 - 1, 0, PAK_HEADER_SIZE, PAK_HEADER_SIZE + DPACKFILE_SIZE,
     PAK_HEADER_SIZE + DPACKFILE_SIZE + 1}

FileLengths == {0 - 1, 0, 1, DPACKFILE_SIZE, DPACKFILE_SIZE + 1}

DirEntries(names) ==
    {packfile_t(name, pos, len) :
        name \in names, pos \in FilePositions, len \in FileLengths}

DirPaks ==
    {PakFile("dir.pak", TRUE, PAK_HEADER_SIZE, DPACKFILE_SIZE, <<e>>) :
        e \in DirEntries({N_x, N_y})}
      \cup {PakFile("dir.pak", TRUE, PAK_HEADER_SIZE, 2 * DPACKFILE_SIZE,
                    <<e1, e2>>) :
               e1 \in {packfile_t(N_x, PAK_HEADER_SIZE, 1)},
               e2 \in DirEntries({N_y})}

LoadDirPak ==
    /\ packs = NoPacks
    /\ \E f \in DirPaks : Called("load", 0, f, QFS_LoadPackFile(packs, f))

NextDirs == LoadDirPak \/ Shutdown

DirSpec == Init /\ [][NextDirs]_vars

(***************************************************************************)
(* The directory buffer of QFS_LoadPAKFile: headers whose dirlen lies      *)
(* about the size of the buffer, in files that hold a directory of up to   *)
(* one record more than the buffer.  A read that stores past the end of    *)
(* the buffer is undefined: the load may go on, or the program may end.    *)
(***************************************************************************)
\* sizeof (info): dpackfile_t info[MAX_FILES_IN_PACK]
InfoSize == MAX_FILES_IN_PACK * DPACKFILE_SIZE

BigDirLens ==
    {DPACKFILE_SIZE, 2 * DPACKFILE_SIZE - 1, InfoSize - 1, InfoSize,
     InfoSize + 1, InfoSize + DPACKFILE_SIZE - 1, InfoSize + DPACKFILE_SIZE}

BigDirs ==
    {[i \in 1..n |-> packfile_t(name, PAK_HEADER_SIZE, 1)] :
        n \in {1, 2, MAX_FILES_IN_PACK, MAX_FILES_IN_PACK + 1},
        name \in {N_x, N_y}}

BigPaks ==
    {PakFile("big.pak", magic, dirofs, dirlen, dir) :
        magic \in BOOLEAN, dirofs \in {PAK_HEADER_SIZE, PAK_HEADER_SIZE + 1},
        dirlen \in BigDirLens, dir \in BigDirs}

\* The directory read of the load is reached: every check before it passes.
DirReadReached(f) ==
    /\ f.exists /\ f.header_ok
    /\ f.dirlen >= 0 /\ f.dirofs >= 0
    /\ f.dirlen \div DPACKFILE_SIZE \in 1..MAX_FILES_IN_PACK

\* What the load can do: what the code says, and anything once fread has
\* stored past the end of info.
LoadOutcomes(tbl, f) ==
    IF DirReadReached(f) /\ DirRead(f) > InfoSize
    THEN {QFS_LoadPackFile(tbl, f), Done(tbl, 0, "fatal", FALSE, <<>>)}
    ELSE {QFS_LoadPackFile(tbl, f)}

LoadBigPak ==
    /\ packs = NoPacks
    /\ \E f \in BigPaks :
          \E res \in LoadOutcomes(packs, f) : Called("load", 0, f, res)

NextBuffer == LoadBigPak \/ Shutdown

BufferSpec == Init /\ [][NextBuffer]_vars

(***************************************************************************)
(* Reading lines: a resource of any text is opened and read line by line.  *)
(***************************************************************************)
BufSizes == 0..(MaxText + 2)

InitText ==
    /\ Start
    /\ text \in Texts

GetLine ==
    /\ status = "open"
    /\ \E bufsz \in BufSizes :
          Finish("getline", bufsz, "SEEK_SET", QFS_GetLine(h, text, bufsz), h)
    /\ UNCHANGED env

NextGetLine == OpenLoose \/ OpenPak \/ OpenZip \/ GetLine \/ Return

GetLineSpec == InitText /\ [][NextGetLine]_vars

(***************************************************************************)
(* Handles in use by several threads.  Each thread holds one handle on an  *)
(* entry of the same pack and runs PAK_Read or ZIP_Read on it; a step is   *)
(* one call of the C library on a FILE*, whose position is the only state  *)
(* a FILE* has here.  FILE 0 is pack->handle, FILE t the one PAK_Open      *)
(* opens for the handle of thread t when asked to reopen.                  *)
(***************************************************************************)
\* A variant in which the handle keeps reading through pack->handle.
OpenedFile_Shared(reopen_pack, t) == 0

\* PAK_Open: the FILE* of the pack_t the handle refers to -- that of the
\* shallow copy when reopen_pack is set, pack->handle otherwise.
OpenedFile(reopen_pack, t) == IF reopen_pack THEN t ELSE 0

\* The byte tinfl_decompress makes of a byte of the entry's deflate stream
\* (one for one here): the byte of the reference inflation when the byte
\* read is the next of the stream.
InflateByte(b, pak_offset) == Inflated(b - ArchiveByte(pak_offset))

\* PAK_Open or ZIP_Open of an entry, in one step.  ZIP_Open reads the local
\* header through the zip reader of the handle, which leaves the FILE* at
\* the entry's data.
ThreadOpen(t) ==
    /\ threads[t].pc = "closed"
    /\ \E kind \in {"pak", "stored", "deflated"}, reopen_pack \in BOOLEAN,
          filepos \in PAK_HEADER_SIZE..(PAK_HEADER_SIZE + 1),
          filelen \in 1..MaxShared :
          /\ \A u \in 1..NumThreads :
                threads[u].kind \in {"none", kind}
                   \/ "pak" \notin {threads[u].kind, kind}
          /\ threads' = [threads EXCEPT ![t] =
                [NoThread EXCEPT !.pc = "idle", !.kind = kind,
                                 !.reopen = reopen_pack,
                                 !.file = OpenedFile(reopen_pack, t),
                                 !.pak_offset = filepos,
                                 !.filelen = filelen]]
          /\ streams' = IF kind = "pak"
                      THEN (IF reopen_pack THEN [streams EXCEPT ![t] = 0]
                            ELSE streams)
                      ELSE [streams EXCEPT ![OpenedFile(reopen_pack, t)] =
                                            filepos]

\* QFS_Seek on a handle whose seek is PAK_Seek: only handle->offs changes.
ThreadSeek(t) ==
    /\ threads[t].pc = "idle"
    /\ threads[t].kind # "deflated"
    /\ \E pos \in 0..threads[t].filelen :
          threads' = [threads EXCEPT ![t].offs = pos]
    /\ UNCHANGED streams

\* QFS_ReadFile enters PAK_Read or ZIP_Read: the size is clamped to what is
\* left of the entry, and nothing is read for a size of 0.
ThreadRead(t) ==
    /\ threads[t].pc = "idle"
    /\ \E size \in 0..(MaxShared + 1) :
          LET sz == Min(size, threads[t].filelen - threads[t].offs)
          IN  threads' = [threads EXCEPT
                             ![t].from = threads[t].offs,
                             ![t].want = sz,
                             ![t].buf = <<>>,
                             ![t].pc = IF sz > 0 THEN "fseek" ELSE "returned"]
    /\ UNCHANGED streams

\* A variant in which the read does not position the FILE* it reads.
ThreadFseek_Unpositioned(t) ==
    /\ threads[t].pc = "fseek"
    /\ threads' = [threads EXCEPT ![t].pc = "fread"]
    /\ UNCHANGED streams

\* Sys_fseek (pack->handle, pak_offset + offs, SEEK_SET) of PAK_Read, or the
\* Sys_fseek of ZIP_LowLevelRead at pak_offset + foffs_in.
ThreadFseek(t) ==
    /\ threads[t].pc = "fseek"
    /\ streams' = [streams EXCEPT ![threads[t].file] =
                    threads[t].pak_offset + threads[t].offs]
    /\ threads' = [threads EXCEPT ![t].pc = "fread"]

\* The fread that follows: all of the size for PAK_Read, the next byte of
\* the deflate stream for ZIP_Read, which inflates it and goes on to the
\* next refill until the size asked for is there.
ThreadFread(t) ==
    /\ threads[t].pc = "fread"
    /\ LET me == threads[t]
           pos == streams[me.file]
           sz == IF me.kind = "deflated" THEN 1 ELSE me.want
           cnt == FreadCount(PackFileLen, pos, sz)
           got == IF me.kind = "deflated"
                  THEN [i \in 1..cnt |->
                           InflateByte(ArchiveByte(pos + i - 1), me.pak_offset)]
                  ELSE ArchiveBytes(pos, cnt)
       IN  /\ streams' = [streams EXCEPT ![me.file] = pos + cnt]
           /\ threads' = [threads EXCEPT
                             ![t].offs = me.offs + cnt,
                             ![t].buf = me.buf \o got,
                             ![t].pc = IF /\ me.kind = "deflated"
                                          /\ cnt = sz
                                          /\ Len(me.buf) + cnt < me.want
                                       THEN "fseek" ELSE "returned"]

\* The read returns to its caller.
ThreadReturn(t) ==
    /\ threads[t].pc = "returned"
    /\ threads' = [threads EXCEPT ![t].pc = "idle", ![t].buf = <<>>,
                                  ![t].want = 0, ![t].from = 0]
    /\ UNCHANGED streams

NextThreads ==
    \E t \in 1..NumThreads :
       /\ \/ ThreadOpen(t) \/ ThreadSeek(t) \/ ThreadRead(t)
          \/ ThreadFseek(t) \/ ThreadFread(t) \/ ThreadReturn(t)
       /\ UNCHANGED <<handle, registry, text, heap>>

ThreadsSpec == Init /\ [][NextThreads]_vars

(***************************************************************************)
(* One caller with several handles: the same steps, but a call on a handle *)
(* runs to its return before a call on another handle begins.              *)
(***************************************************************************)
Serial(t) ==
    \A u \in 1..NumThreads : u # t => threads[u].pc \in {"closed", "idle"}

NextSerial ==
    \E t \in 1..NumThreads :
       /\ Serial(t)
       /\ \/ ThreadOpen(t) \/ ThreadSeek(t) \/ ThreadRead(t)
          \/ ThreadFseek(t) \/ ThreadFread(t) \/ ThreadReturn(t)
       /\ UNCHANGED <<handle, registry, text, heap>>

SerialSpec == Init /\ [][NextSerial]_vars

(***************************************************************************)
(* ignore_bytes with any cut, negative ones included, on a fresh handle    *)
(* and on a handle already trimmed.                                        *)
(***************************************************************************)
AnyCuts == (0 - 2)..(MaxRaw + 1)

IgnoreAnyBytes ==
    /\ status = "open"
    /\ \E cut \in AnyCuts, whence \in Whences :
          Finish("ignore", cut, whence, QFS_IgnoreBytes(h, cut, whence), h)
    /\ UNCHANGED env

NextIgnore == OpenLoose \/ OpenPak \/ OpenZip \/ IgnoreAnyBytes \/ Return

IgnoreSpec == Init /\ [][NextIgnore]_vars

(***************************************************************************)
(* Deflated entries whose stream is longer than the compressed size the    *)
(* central directory declares, beside the sound ones.                      *)
(***************************************************************************)
OpenTruncated ==
    /\ status = "none"
    /\ \E extra \in 0..1, len \in 1..MaxRaw, comp \in 1..MaxComp :
          env' = [NoEnv EXCEPT !.kind = "pk3", !.file_len = Pk3FileLen,
                               !.filelen = len, !.uncomp_size = len,
                               !.comp_size = comp, !.missing = 1,
                               !.name_len = 1, !.extra_len = extra,
                               !.method = 8]
    /\ Finish("open", 0, "SEEK_SET", ZIP_Open', h)

NextTruncated == OpenZip \/ OpenTruncated \/ Read \/ Seek \/ Return

TruncatedSpec == Init /\ [][NextTruncated]_vars

(***************************************************************************)
(* A pack file whose device fails while a handle is open on it: from then  *)
(* on no position of the file can be reached.                              *)
(***************************************************************************)
DeviceFails ==
    /\ status = "open"
    /\ env.kind \in {"pak", "pk3"}
    /\ ~env.io_error
    /\ env' = [env EXCEPT !.io_error = TRUE]
    /\ UNCHANGED <<h, status, last>>
    /\ UNCHANGED not_handle

NextFailing == OpenPak \/ OpenZip \/ DeviceFails \/ Read \/ Seek \/ Return

FailingSpec == Init /\ [][NextFailing]_vars

(***************************************************************************)
(* Local headers: entries of a .pk3 whose local header lies at any offset  *)
(* of an archive of any length, with any signature.                        *)
(***************************************************************************)
ArchiveLens == {3, 29, 30, 31, 32, 33, Pk3FileLen}

OpenHeader ==
    /\ status = "none"
    /\ \E flen \in ArchiveLens, ofs \in 0..1, extra \in 0..1,
          method \in {0, 8}, len \in 1..2, sig \in BOOLEAN :
          env' = [NoEnv EXCEPT !.kind = "pk3", !.file_len = flen,
                               !.local_header_ofs = ofs,
                               !.filelen = len, !.uncomp_size = len,
                               !.comp_size = IF method = 0 THEN len ELSE 1,
                               !.name_len = 1, !.extra_len = extra,
                               !.method = method, !.sig_ok = sig]
    /\ Finish("open", 0, "SEEK_SET", ZIP_Open', h)

NextHeaders == OpenHeader \/ Read \/ Return

HeaderSpec == Init /\ [][NextHeaders]_vars

(***************************************************************************)
(* The life of a pack and of the handles on it: the pack is loaded, its    *)
(* entries are opened (borrowing the pack, or on a copy of it), used and   *)
(* closed, and the pack is released by QFS_FreePack or QFS_Shutdown.       *)
(***************************************************************************)
Life(hp) ==
    /\ heap' = hp
    /\ UNCHANGED <<handle, registry, text, streams, threads>>

\* QFS_LoadPAKFile or QFS_LoadPK3File and QFS_RegisterPack.
LoadPack ==
    /\ heap = NoHeap
    /\ \E pakver \in {1, 3} :
          LET a == Alloc(Alloc(Alloc(heap, <<0, "pack">>), <<0, "handle">>),
                         <<0, "files">>)
              b == IF pakver = 3 THEN Alloc(a, <<0, "impl_data">>) ELSE a
          IN  Life([b EXCEPT
                       !.slot = <<0, "pack">>,
                       !.structs[0] =
                          pack_t(<<0, "handle">>, <<0, "files">>,
                                 IF pakver = 3 THEN <<0, "impl_data">>
                                 ELSE NULL, pakver)])

\* pack->open_file (pack, idx, reopen_pack) from QFS_FindFile.
OpenEntry(k) ==
    /\ heap.slot # NULL
    /\ heap.handles[k].state = "none"
    /\ \E reopen_pack \in BOOLEAN, method \in {0, 8} :
          Life([(IF heap.structs[0].pakver = 3
                 THEN ZIP_OpenBlocks(heap, k, reopen_pack, method)
                 ELSE PAK_OpenBlocks(heap, k, reopen_pack))
                EXCEPT !.last = [NoUse EXCEPT !.op = "open", !.k = k]])

\* QFS_FileSize, QFS_ReadFile or QFS_Seek on an open handle.  The size read
\* from an entry array that has been released is any value.
UseEntry(k) ==
    /\ heap.handles[k].state = "open"
    /\ \E op \in {"size", "read", "seek"}, ret \in {"filelen", "garbage"} :
          /\ ret = "garbage" =>
                heap.structs[heap.handles[k].data[1]].files \notin heap.live
          /\ Life([heap EXCEPT !.last = [op |-> op, k |-> k,
                                         touched |-> Touched(heap, k, op),
                                         ret |-> ret]])

CloseEntry(k) ==
    /\ heap.handles[k].state = "open"
    /\ Life([QFS_CloseFile(heap, k) EXCEPT
                !.last = [NoUse EXCEPT !.op = "close", !.k = k]])

\* QFS_FreePack of the pack's id, or QFS_Shutdown.
ReleasePack ==
    /\ heap.slot # NULL
    /\ Life([FreePackHandle([heap EXCEPT !.slot = NULL], 0) EXCEPT
                !.last = [NoUse EXCEPT !.op = "release"]])

NextLife ==
    \/ LoadPack
    \/ ReleasePack
    \/ \E k \in 1..NumThreads : OpenEntry(k) \/ UseEntry(k) \/ CloseEntry(k)

LifeSpec == Init /\ [][NextLife]_vars

\* Reads and seeks only: the handles no QFS_IgnoreBytes has touched.
NextReadSeek == OpenLoose \/ OpenPak \/ OpenZip \/ Read \/ Seek \/ Return

ReadSeekSpec == Init /\ [][NextReadSeek]_vars

(***************************************************************************)
(* The properties.                                                         *)
(***************************************************************************)
\* An operation of the given name has just returned.
Returned(op) == status = "returned" /\ last.op = op

\* The length the directory (or the OS) declares for the resource.
DeclaredLength == IF env.kind = "loose" THEN env.file_len ELSE env.filelen

\* Offset of the resource's first byte in its file.
Origin ==
    CASE env.kind = "pak" -> env.filepos
      [] env.kind = "pk3" -> PayloadOrigin
      [] OTHER -> 0

\* The k raw bytes of the resource from raw position pos on: bytes of the
\* loose file, of the pack file behind the entry's origin, or of the entry's
\* reference inflation.
RawBytes(pos, k) ==
    CASE env.kind = "loose" -> LooseBytes(pos, k)
      [] env.kind = "pk3" /\ env.method # 0 ->
            [i \in 1..k |-> Inflated(pos + i - 1)]
      [] OTHER -> ArchiveBytes(Origin + pos, k)

\* A direct positioned read of at most k bytes of the pack file at pos.
PositionedRead(pos, k) ==
    ArchiveBytes(pos, FreadCount(env.file_len, pos, Max(k, 0)))

\* The entry lies inside its file (ZIP_Open refuses a pk3 entry that does
\* not; nothing checks a PAK entry).
EntryInsideFile == env.kind = "loose" \/ Origin + env.filelen <= env.file_len

\* The handle a fresh open of the entry gives.
FreshHandle == IF env.kind = "pak" THEN PAK_Open ELSE ZIP_Open.h

\* C1: immediately after a successful open on any backend, tell() is 0,
\* size() is the declared length of the entry (the OS length of a loose
\* file), and eof() is false when that length is positive.
C1_AfterOpen ==
    Returned("open") =>
        /\ QFS_Tell(h) = 0
        /\ QFS_FileSize(h) = DeclaredLength
        /\ (DeclaredLength > 0 => ~QFS_Eof(h))

\* C1 witness: a deflated entry of MaxRaw bytes has just been opened.
C1_Witness ==
    /\ Returned("open")
    /\ h.read = "ZIP_Read"
    /\ DeclaredLength = MaxRaw
    /\ ~QFS_Eof(h)

\* C2: whatever the trims, read(buf, n) returns k in 0..n, tell() advances by
\* exactly k, and k < n implies eof() afterwards.
C2_ReadContract ==
    (Returned("read") /\ EntryInsideFile) =>
        /\ last.ret \in 0..last.arg
        /\ QFS_Tell(h) = QFS_Tell(last.pre) + last.ret
        /\ (last.ret < last.arg => QFS_Eof(h))

\* C3: a read issued at tell() = t returns at most size() - t bytes, and the
\* bytes are the raw bytes [start + t, start + t + k) of the resource.
C3_ReadInsideVisible ==
    (Returned("read") /\ EntryInsideFile) =>
        LET t == QFS_Tell(last.pre)
        IN  /\ last.ret <= QFS_FileSize(last.pre) - t
            /\ last.buf = RawBytes(last.pre.start + t, last.ret)

\* C4: seek(size(), SET), and likewise seek(0, END), returns 0; afterwards
\* tell() = size(), eof() is true and a read of one or more bytes returns 0.
C4_SeekToEnd ==
    (/\ Returned("seek")
     /\ \/ last.whence = "SEEK_SET" /\ last.arg = QFS_FileSize(last.pre)
        \/ last.whence = "SEEK_END" /\ last.arg = 0)
    =>  /\ last.ret = 0
        /\ QFS_Tell(h) = QFS_FileSize(h)
        /\ QFS_Eof(h)
        /\ \A n \in Sizes \ {0} : QFS_ReadFile(h, n).ret = 0

\* C5: for every p in 0..size(), seek(p, SET) returns 0 and tell() is then p,
\* whatever the trims.
C5_SeekTellRoundTrip ==
    (/\ Returned("seek")
     /\ last.whence = "SEEK_SET"
     /\ last.arg \in 0..QFS_FileSize(last.pre))
    =>  /\ last.ret = 0
        /\ QFS_Tell(h) = last.arg

\* C6: with the target inside the visible region, seek(off, CUR) makes tell()
\* the previous tell() + off and seek(off, END) makes it size() + off.
C6_SeekLikeFseek ==
    Returned("seek") =>
        LET t == QFS_Tell(last.pre)
            size == QFS_FileSize(last.pre)
        IN  /\ (last.whence = "SEEK_CUR" /\ t + last.arg \in 0..size)
                  => QFS_Tell(h) = t + last.arg
            /\ (last.whence = "SEEK_END" /\ size + last.arg \in 0..size)
                  => QFS_Tell(h) = size + last.arg

C9_IgnoreKeepsCursor ==
    (Returned("ignore") /\ last.ret = TRUE) =>
        LET lo == h.start
            hi == CallFileSize(h) - h.endtrim
            before == last.pre.start + QFS_Tell(last.pre)
            at == IF before < lo THEN lo ELSE IF before > hi THEN hi ELSE before
        IN  /\ h.start + QFS_Tell(h) = at
            /\ \A n \in Sizes :
                  QFS_ReadFile(h, n).buf = RawBytes(at, Min(n, hi - at))

\* C10: ignore_bytes(0, SET) sets both start and endtrim to 0, so that size()
\* is the raw size again, whatever trims were in effect.
C10_IgnoreZeroResets ==
    (/\ Returned("ignore")
     /\ last.whence = "SEEK_SET" /\ last.arg = 0)
    =>  /\ h.start = 0
        /\ h.endtrim = 0
        /\ QFS_FileSize(h) = CallFileSize(h)

\* C11: ignore_bytes called with whence SEEK_CUR and cut 0 resets the ignore
\* effect: start and endtrim are 0 afterwards and size() is the raw size.
C11_IgnoreZeroCurResets ==
    (/\ Returned("ignore")
     /\ last.whence = "SEEK_CUR" /\ last.arg = 0)
    =>  /\ h.start = 0
        /\ h.endtrim = 0
        /\ QFS_FileSize(h) = CallFileSize(h)

\* Element k of the search path contains the name: a pack with an entry of
\* exactly that name, or a directory in which it is a regular file.
Holds(k, filename) ==
    LET search == com_searchpaths[k]
    IN  IF search.pack # 0
        THEN /\ search.pack \in 1..MAX_PACK_FILES
             /\ \E i \in 1..Len(packs[search.pack].files) :
                   packs[search.pack].files[i].name = filename
        ELSE filename \in DirFiles(search.filename)

\* Element k is searched for the name: a directory is passed over when the
\* game is not registered and the name has a path separator.
Searched(k, filename, registered) ==
    com_searchpaths[k].pack = 0 => (registered \/ ~HasSeparator(filename))

\* The last call, a find, was answered from element k: its data, its length
\* and its path_id.
AnsweredFrom(k) ==
    LET search == com_searchpaths[k]
        found == call.res
    IN  /\ found.outcome = "ok"
        /\ found.at = k
        /\ found.path_id = search.path_id
        /\ status = "returned"
        /\ QFS_FileSize(h) = found.ret
        /\ IF search.pack # 0
           THEN /\ found.pack = packs[search.pack]
                /\ found.idx = EntryIndex(packs[search.pack], call.arg.filename)
                /\ found.ret = found.pack.files[found.idx + 1].filelen
                /\ env.filelen = found.ret
           ELSE /\ found.ret = LooseLen(search.filename, call.arg.filename)
                /\ env.kind = "loose"

Occupied(tbl) == {i \in 0..MAX_PACK_FILES : tbl[i] # NULL_PACK}

\* The last call loaded an archive that passes every check of its loader,
\* so that the loader went on to QFS_RegisterPack.
Registering ==
    /\ call.op = "load"
    /\ call.file \in {Pak0, Pak1, ModPk3, DirsPk3}

\* C13: registering a pack returns the lowest-numbered empty slot of
\* 1..MAX_PACK_FILES and stores the pack there; it returns 0 exactly when
\* every slot is occupied, and then the pack is destroyed and the table is
\* unchanged; slot 0 never holds a pack.
C13_RegisterLowestFree ==
    /\ packs[0] = NULL_PACK
    /\ Registering =>
         LET id == call.res.ret
             full == Occupied(call.pre) = 1..MAX_PACK_FILES
         IN  /\ call.res.outcome = "ok"
             /\ (id = 0) <=> full
             /\ id # 0 =>
                  /\ id \in 1..MAX_PACK_FILES
                  /\ call.pre[id] = NULL_PACK
                  /\ \A j \in 1..(id - 1) : call.pre[j] # NULL_PACK
                  /\ packs[id].filename = call.file.filename
                  /\ \A j \in 0..MAX_PACK_FILES :
                        j # id => packs[j] = call.pre[j]
                  /\ call.res.released = <<>>
             /\ id = 0 =>
                  /\ packs = call.pre
                  /\ call.res.warned
                  /\ Released("free pack", call.file.filename)
                        \in {call.res.released[k] :
                                k \in 1..Len(call.res.released)}

\* A pack that passed its loader is turned away by a full table.
C13_Witness ==
    /\ Registering
    /\ call.res.ret = 0
    /\ Occupied(call.pre) = 1..MAX_PACK_FILES
    /\ packs = call.pre

\* C14: every id returned by load_pack identifies its pack until it is
\* freed: pack_name gives the file name, pack_num_files the entry count, and
\* a search path naming the id is walked without the "invalid pack id" error.
C14_IdIdentifiesPack ==
    \A id \in 1..MAX_PACK_FILES :
        packs[id] # NULL_PACK =>
            /\ QFS_PackInfoName(packs, id) = packs[id].filename
            /\ QFS_PackInfoNumFiles(packs, id) = Len(packs[id].files)
            /\ QFS_FindFile(packs, <<searchpath_t(1, id, "")>>, N_x,
                            TRUE, TRUE).outcome # "fatal"

\* The count of releases of one kind among those a call made.
ReleaseCount(released, what) ==
    Cardinality({k \in 1..Len(released) : released[k].what = what})

\* C15: free_pack on a registered id detaches and destroys exactly that
\* pack: pack_name(id) is NULL afterwards, the slot is empty, every other
\* slot is unchanged, and the backing file, the zip reader and the entry
\* array are each released once.
C15_FreeDetaches ==
    (/\ call.op = "free"
     /\ call.arg \in 1..MAX_PACK_FILES
     /\ call.pre[call.arg] # NULL_PACK)
    =>  LET pack == call.pre[call.arg]
            released == call.res.released
        IN  /\ QFS_PackInfoName(packs, call.arg) = NULL_PACK.filename
            /\ packs[call.arg] = NULL_PACK
            /\ \A j \in 0..MAX_PACK_FILES :
                  j # call.arg => packs[j] = call.pre[j]
            /\ \A k \in 1..Len(released) : released[k].of = pack.filename
            /\ ReleaseCount(released, "fclose") = 1
            /\ ReleaseCount(released, "free files") = 1
            /\ ReleaseCount(released, "free pack") = 1
            /\ ReleaseCount(released, "mz_zip_reader_end")
                  = (IF pack.pakver = 3 THEN 1 ELSE 0)

\* The header of the .pak the last call loaded is one the loader rejects.
BadPakHeader(f) ==
    /\ f.ext = "pak"
    /\ f.exists
    /\ \/ ~f.header_ok
       \/ f.dirlen < 0
       \/ f.dirofs < 0
       \/ f.dirlen >= (MAX_FILES_IN_PACK + 1) * DPACKFILE_SIZE

\* C16: loading a .pak whose magic is not "PACK", whose dirlen or dirofs is
\* negative, or whose file count exceeds MAX_FILES_IN_PACK is a fatal error:
\* no id is returned and no slot is filled.
C16_BadPakFatal ==
    (call.op = "load" /\ BadPakHeader(call.file))
    =>  /\ call.res.outcome = "fatal"
        /\ call.res.ret = 0
        /\ packs = call.pre

\* Each of the four faults is met alone, in a header otherwise sound and
\* with a slot free to take the pack.
C16_Witness ==
    /\ call.op = "load"
    /\ BadPakHeader(call.file)
    /\ ~call.file.header_ok
    /\ call.file.dirlen = DPACKFILE_SIZE
    /\ call.file.dirofs = PAK_HEADER_SIZE
    /\ Len(call.file.dir) = 1
    /\ Occupied(call.pre) # 1..MAX_PACK_FILES
    /\ call.res.outcome = "fatal"

\* C17: load_pack returns a non-zero id only for a pack with at least one
\* entry; a .pak with no files and a .pk3 that yields no entries (empty, or
\* directory entries only) return 0 with a warning, without ending the
\* program and without changing the table.
C17_NoEmptyPack ==
    call.op = "load" =>
        /\ call.res.ret # 0 => packs[call.res.ret].numfiles >= 1
        /\ (/\ call.file.exists
            /\ call.file.ext \in {"pk3", "PK3"}
            /\ call.file.reader_ok
            /\ \A k \in 1..Len(call.file.entries) :
                  /\ call.file.entries[k].stat_ok
                  /\ call.file.entries[k].is_directory)
           =>  /\ call.res.ret = 0
               /\ call.res.outcome = "ok"
               /\ call.res.warned
               /\ packs = call.pre
        /\ (/\ call.file.exists
            /\ call.file.ext = "pak"
            /\ call.file.header_ok
            /\ call.file.dirofs >= 0
            /\ call.file.dirlen \in 0..(DPACKFILE_SIZE - 1))
           =>  /\ call.res.ret = 0
               /\ call.res.outcome = "ok"
               /\ call.res.warned
               /\ packs = call.pre

\* The entry's name is in a legacy encoding: bit 11 of its flags is clear
\* and its raw name has a byte of 0x80 or above.
Legacy(st) == ~st.bit11 /\ ~q_strascii(st.name)

\* The last call loaded an archive of named files.
LoadedNames == call.op = "load" /\ call.file \in NamedPk3s

\* The names stored by the last load are these, entry by entry.
StoredNames(names) ==
    /\ call.res.outcome = "ok"
    /\ call.res.ret # 0
    /\ Len(packs[call.res.ret].files) = Len(names)
    /\ \A k \in 1..Len(names) : packs[call.res.ret].files[k].name = names[k]

Rest ==
    LET p == QFS_Tell(last.pre)
    IN  [i \in 1..Max(DeclaredLength - p, 0) |-> CharAt(text, p + i - 1)]

\* The characters the last call consumed, and those it copied to buf.
Consumed == QFS_Tell(h) - QFS_Tell(last.pre)
Copied == SubSeq(last.buf, 1, Len(last.buf) - 1)

\* A sequence of characters without its '\r'.
NoCR(seq) == SelectSeq(seq, LAMBDA ch : ch # 13)

\* get_line has returned from a call with bufsz >= 1.
GotLine == Returned("getline") /\ last.arg >= 1 /\ EntryInsideFile

\* What C20 says of buf and of the count returned.
LineCopied ==
    /\ last.ret = Len(Copied)
    /\ last.ret <= last.arg - 1
    /\ Len(last.buf) = last.ret + 1
    /\ last.buf[last.ret + 1] = 0
    /\ \A i \in 1..Len(Copied) : Copied[i] \notin {13, 10}

\* C20 as stated: get_line(buf, bufsz) with bufsz >= 1 copies at most
\* bufsz - 1 characters, never copies '\r' or '\n', stops after consuming
\* the first '\n' (or at end of file), always NUL-terminates buf and
\* returns the number of characters copied.
C20_GetLine ==
    GotLine =>
        /\ LineCopied
        /\ IF \E i \in 1..Len(Rest) : Rest[i] = 10
           THEN /\ Consumed >= 1
                /\ Rest[Consumed] = 10
                /\ \A i \in 1..(Consumed - 1) : Rest[i] # 10
           ELSE Consumed = Len(Rest)

\* C20: get_line(buf, bufsz) with bufsz >= 1 copies at most bufsz - 1
\* characters, never '\r' or '\n', always NUL-terminates buf and returns the
\* number copied.  It stops at the first of: having consumed a '\n' or a
\* NUL byte, end of file, and bufsz - 1 characters copied -- in which case
\* the rest of the line, its '\n' included, is left unread.  The characters
\* copied are those consumed, less the '\r' and the final '\n' or NUL.
C20_GetLineStops ==
    /\ (status \in {"fatal", "hung"} => last.op = "open")
    /\ GotLine =>
         LET ended == Consumed >= 1 /\ Rest[Consumed] \in {10, 0}
             body == SubSeq(Rest, 1, IF ended THEN Consumed - 1 ELSE Consumed)
         IN  /\ LineCopied
             /\ Consumed \in 0..Len(Rest)
             /\ \A i \in 1..Len(body) : body[i] \notin {10, 0}
             /\ Copied = NoCR(body)
             /\ \/ ended
                \/ Consumed = Len(Rest)
                \/ /\ last.ret = last.arg - 1
                   /\ Consumed >= 1 => Rest[Consumed] # 13
             /\ Consumed >= 1 =>
                  Len(NoCR(SubSeq(Rest, 1, Consumed - 1))) < last.arg - 1

\* A line "\ra\n" of a deflated entry is read into a buffer with room to
\* spare: 'a' is copied and all three characters are consumed.
C20_Witness ==
    /\ GotLine
    /\ last.pre.read = "ZIP_Read"
    /\ env.method # 0
    /\ QFS_Tell(last.pre) = 0
    /\ Rest = <<13, 97, 10>>
    /\ last.arg = 3
    /\ last.buf = <<97, 0>>
    /\ Consumed = 3

\* The bytes thread t gets from the read it is returning from when no other
\* thread runs: those of its entry from the position the read began at.
AloneBytes(t) ==
    LET me == threads[t]
    IN  IF me.kind = "deflated"
        THEN [i \in 1..me.want |-> Inflated(me.from + i - 1)]
        ELSE ArchiveBytes(me.pak_offset + me.from, me.want)

C21_TellInsideVisible ==
    (status \in {"open", "returned"} /\ EntryInsideFile)
    =>  /\ 0 <= QFS_Tell(h)
        /\ QFS_Tell(h) <= QFS_FileSize(h)

\* The trims of a handle are sound: neither is negative and together they
\* do not exceed the raw size.
TrimsSound(hh) ==
    /\ hh.start >= 0
    /\ hh.endtrim >= 0
    /\ hh.start + hh.endtrim <= CallFileSize(hh)

\* C22: ignore_bytes never leaves a handle with start < 0, endtrim < 0 or
\* start + endtrim > raw_size: a call whose cut would produce such trims
\* returns false and leaves both start and endtrim unchanged.
C22_TrimsStaySound ==
    /\ status \in {"open", "returned"} => TrimsSound(h)
    /\ (/\ Returned("ignore")
        /\ last.whence \in {"SEEK_SET", "SEEK_END"}
        /\ ~TrimsSound(IF last.whence = "SEEK_SET"
                       THEN [last.pre EXCEPT !.start = last.arg]
                       ELSE [last.pre EXCEPT !.endtrim = last.arg]))
       =>  /\ last.ret = FALSE
           /\ h.start = last.pre.start
           /\ h.endtrim = last.pre.endtrim

\* C23: a seek whose target lies outside [start, raw_size - endtrim], or whose
\* whence is not SET, CUR or END, returns -1 and leaves tell(), both trims and
\* the backend state (OS file position, inflator buffers) unchanged.
C23_RefusedSeekChangesNothing ==
    (/\ status \in {"returned", "fatal", "hung"}
     /\ last.op = "seek"
     /\ LET target == QFS_Seek_Target(last.pre, last.arg, last.whence)
        IN  \/ last.whence \notin {"SEEK_SET", "SEEK_CUR", "SEEK_END"}
            \/ target < last.pre.start
            \/ target > CallFileSize(last.pre) - last.pre.endtrim)
    =>  /\ status = "returned"
        /\ last.ret = 0 - 1
        /\ QFS_Tell(h) = QFS_Tell(last.pre)
        /\ h.start = last.pre.start /\ h.endtrim = last.pre.endtrim
        /\ h.fpos = last.pre.fpos
        /\ h.zip = last.pre.zip
        /\ h = last.pre

\* C23 witness: a seek past the end of a deflated entry that has been read
\* in part and trimmed is refused.
C23_Witness ==
    /\ Returned("seek")
    /\ last.pre.read = "ZIP_Read"
    /\ last.pre.zip.foffs_out > 0
    /\ last.pre.endtrim > 0
    /\ last.whence = "SEEK_END" /\ last.arg > 0
    /\ last.ret = 0 - 1

\* C24: after a successful PAK load, every entry of the registered pack has
\* filepos >= 0, filelen >= 0 and filepos + filelen <= the length of the
\* archive file, so that no later open or read on that pack uses a negative
\* length or a payload region outside the archive.
C24_PakEntriesInsideArchive ==
    (/\ call.op = "load"
     /\ call.file.ext = "pak"
     /\ call.res.outcome = "ok" /\ call.res.ret # 0)
    =>  \A k \in 1..packs[call.res.ret].numfiles :
           LET e == packs[call.res.ret].files[k]
           IN  /\ e.filepos >= 0
               /\ e.filelen >= 0
               /\ e.filepos + e.filelen <= PakLength(call.file)

\* C25: every read (and every seek that discard-reads) on a zip-deflated
\* handle terminates: it returns a byte count or ends in a fatal error, also
\* when the compressed data is exhausted (foffs_in = comp_size and the input
\* buffer consumed) before the decoder reports completion.
C25_ZipReadTerminates ==
    (last.op \in {"read", "seek"} /\ last.pre.read = "ZIP_Read")
    => status \in {"returned", "fatal"}

\* C26: on each invocation of the decoder, the has_more_input flag is passed
\* iff compressed bytes remain beyond those already loaded (foffs_in <
\* comp_size), and the output is always written in non-wrapping mode.
C26_DecoderFlags ==
    (status = "open" /\ h.read = "ZIP_Read" /\ env.uncomp_size > 0)
    =>  \A n \in 1..MaxRaw :
           LET calls == ZIP_Invocations(Loop(h, n, 0, <<>>, "loop"))
           IN  \A k \in 1..Len(calls) :
                  /\ ("TINFL_FLAG_HAS_MORE_INPUT" \in calls[k].flags)
                        <=> calls[k].remain
                  /\ "TINFL_FLAG_USING_NON_WRAPPING_OUTPUT_BUF"
                        \in calls[k].flags

\* C27: in every state a zip-deflated handle is left in between operations
\* (after open and after any read or seek, a backward seek to position 0
\* included), 0 <= p_in <= readsz_in <= bsz_in and
\* 0 <= out_read_ptr <= p_out <= bsz_out.
C27_BufferCursorsOrdered ==
    (status \in {"open", "returned"} /\ h.read = "ZIP_Read")
    =>  /\ 0 <= h.zip.p_in
        /\ h.zip.p_in <= h.zip.readsz_in
        /\ h.zip.readsz_in <= h.zip.bsz_in
        /\ 0 <= h.zip.out_read_ptr
        /\ h.zip.out_read_ptr <= h.zip.p_out
        /\ h.zip.p_out <= h.zip.bsz_out

\* C28: for a zip-deflated handle, after any sequence of read, seek and
\* ignore_bytes calls, the cursor is the count of inflated bytes less those
\* still waiting in the output buffer:
\* offs = foffs_out - (p_out - out_read_ptr).
C28_CursorFollowsInflation ==
    (status \in {"open", "returned"} /\ h.read = "ZIP_Read")
    =>  h.offs = h.zip.foffs_out - (h.zip.p_out - h.zip.out_read_ptr)

\* The target of the seek lies inside the window of the output buffer.
InsideWindow(hh, pos) ==
    LET buf_start == hh.offs - hh.zip.out_read_ptr
    IN  pos >= buf_start /\ pos - buf_start <= hh.zip.p_out

\* C29: a seek on a zip-deflated handle whose target lies inside the current
\* window of the output buffer changes only out_read_ptr and the logical
\* position: foffs_in, foffs_out, p_in, p_out, readsz_in, eof_flag and the
\* state of the decoder are unchanged, and no compressed bytes are read.
C29_SeekInsideWindow ==
    (/\ status \in {"returned", "fatal", "hung"}
     /\ last.op = "seek"
     /\ last.pre.read = "ZIP_Read"
     /\ last.whence \in {"SEEK_SET", "SEEK_CUR", "SEEK_END"}
     /\ InsideWindow(last.pre,
                     QFS_Seek_Target(last.pre, last.arg, last.whence)))
    =>  LET target == QFS_Seek_Target(last.pre, last.arg, last.whence)
            buf_start == last.pre.offs - last.pre.zip.out_read_ptr
        IN  /\ status = "returned"
            /\ h.zip.foffs_in = last.pre.zip.foffs_in
            /\ h.zip.foffs_out = last.pre.zip.foffs_out
            /\ h.fpos = last.pre.fpos
            /\ [h EXCEPT !.offs = 0, !.zip.out_read_ptr = 0]
                  = [last.pre EXCEPT !.offs = 0, !.zip.out_read_ptr = 0]
            /\ last.ret = 0 =>
                  /\ h.offs = target
                  /\ h.zip.out_read_ptr = target - buf_start
            /\ last.ret # 0 => h = last.pre

\* C29 witness: an accepted seek back to a byte still in the output buffer,
\* which holds inflated bytes on both sides of the cursor.
C29_Witness ==
    /\ Returned("seek")
    /\ last.pre.read = "ZIP_Read"
    /\ last.ret = 0
    /\ last.pre.zip.p_out = MZ_ZIP_MAX_IO_BUF_SIZE
    /\ last.pre.zip.out_read_ptr = 1
    /\ InsideWindow(last.pre, QFS_Seek_Target(last.pre, last.arg, last.whence))
    /\ h.zip.out_read_ptr = 0
    /\ h.offs = last.pre.offs - 1

\* C30: when positioning the pack's backing file fails during a PAK-stored or
\* zip-stored read, the read reports an I/O error: it does not return a byte
\* count for data that was never stored into the caller's buffer, and the
\* cursor does not advance.
C30_FailedPositioningReported ==
    (/\ status \in {"returned", "fatal", "hung"}
     /\ last.op = "read"
     /\ last.pre.read = "PAK_Read"
     /\ ~Sys_fseek_ok(last.pre.pak_offset + last.pre.offs + last.pre.start))
    =>  \/ status = "fatal"
        \/ /\ status = "returned"
           /\ last.ret <= Len(last.buf)
           /\ h.offs = last.pre.offs

\* The local header of the entry cannot be read in full.
HeaderCut == env.file_len < env.local_header_ofs + 30

\* The compressed data of the entry reaches past the end of the archive.
PayloadCut ==
    env.local_header_ofs + 30 + env.name_len + env.extra_len + env.comp_size
       > env.file_len

\* C31: opening a PK3 entry sets the payload origin to local_header_ofs + 30
\* + name_len + extra_len, and ends in a fatal error, returning no handle,
\* whenever the signature of the local header is wrong, the header cannot be
\* read in full, or payload origin + comp_size exceeds the archive size; an
\* entry of method 0 gets the stored read and seek routines and any other
\* supported entry the inflator.
C31_ZipOpen ==
    (last.op = "open" /\ env.kind = "pk3")
    =>  /\ status \in {"returned", "fatal"}
        /\ (~env.sig_ok \/ HeaderCut \/ PayloadCut) => status = "fatal"
        /\ status = "returned" =>
              /\ h.pak_offset = env.local_header_ofs + 30
                                   + env.name_len + env.extra_len
              /\ env.method = 0 => h.read = "PAK_Read" /\ h.seek = "PAK_Seek"
              /\ env.method # 0 => h.read = "ZIP_Read" /\ h.seek = "ZIP_Seek"

\* C31 witness: a sound header read in full, at an offset other than 0 and
\* with an extra field, whose payload alone reaches past the archive's end.
C31_Witness ==
    /\ last.op = "open" /\ env.kind = "pk3"
    /\ status = "fatal"
    /\ env.sig_ok /\ ~HeaderCut /\ PayloadCut
    /\ env.local_header_ofs = 1 /\ env.extra_len = 1

\* The blocks a handle's copy of the pack owns, and those of its inflator.
OwnBlocks(k) ==
    (IF heap.handles[k].owns_data
     THEN {<<k, "pack">>, <<k, "handle">>}
             \cup (IF heap.structs[0].pakver = 3
                   THEN {<<k, "impl_data">>} ELSE {})
     ELSE {})
    \cup (IF heap.handles[k].deflated
          THEN {<<k, "zip">>, <<k, "inbuf">>, <<k, "outbuf">>} ELSE {})
    \cup {<<k, "qfshandle">>}

\* The blocks of the registered pack.
PackBlocks ==
    {<<0, "pack">>, <<0, "handle">>, <<0, "files">>}
       \cup (IF heap.structs[0].pakver = 3 THEN {<<0, "impl_data">>} ELSE {})

\* C32: closing a handle never damages the registered pack: after closing a
\* borrowed handle or a reopen clone (PAK or PK3), the registered pack still
\* occupies its slot with its backing file open, its zip reader valid and
\* its entry array allocated, while the clone's own file handle, zip reader
\* and inflator buffers are each released exactly once.
C32_CloseSparesPack ==
    (heap.last.op = "close" /\ heap.slot # NULL)
    =>  /\ heap.slot = <<0, "pack">>
        /\ PackBlocks \subseteq heap.live
        /\ \A b \in PackBlocks : heap.freed[b] = 0
        /\ heap.structs[0].files = <<0, "files">>
        /\ \A b \in OwnBlocks(heap.last.k) :
              b \notin heap.live /\ heap.freed[b] = 1
        /\ \A b \in Blocks : heap.freed[b] <= 1

\* C32 witness: a clone on a deflated entry of a .pk3 is closed while the
\* pack is registered and the other holder has closed a borrowed handle.
C32_Witness ==
    /\ heap.last.op = "close" /\ heap.slot # NULL
    /\ heap.structs[0].pakver = 3
    /\ heap.handles[heap.last.k].owns_data
    /\ heap.handles[heap.last.k].deflated
    /\ \E j \in 1..NumThreads :
          /\ heap.handles[j].state = "closed"
          /\ ~heap.handles[j].owns_data

\* C33: a handle opened with reopen = true stays usable after the pack it
\* was cloned from is released by free_pack or shutdown: its size(), read
\* and seek never access the entry array of the released pack or any other
\* released resource.
C33_CloneOutlivesPack ==
    (/\ heap.last.op \in {"size", "read", "seek"}
     /\ heap.handles[heap.last.k].owns_data
     /\ heap.slot = NULL)
    =>  /\ heap.last.touched \subseteq heap.live
        /\ heap.last.ret = "filelen"

\* C34: when whole read and seek operations on two borrowed (non-reopen)
\* handles over the same pack are interleaved in any order by one caller,
\* each handle's reads return the same bytes as if it were used alone: every
\* backend read positions the shared pack file before reading, and the
\* cursor is kept in the handle.
C34_BorrowedSerialised ==
    \A t \in 1..NumThreads :
       (/\ threads[t].pc = "returned"
        /\ \A u \in 1..NumThreads :
              threads[u].pc # "closed" /\ ~threads[u].reopen
                 /\ threads[u].file = 0)
       =>  /\ threads[t].buf = AloneBytes(t)
           /\ threads[t].offs = threads[t].from + threads[t].want

\* C34 witness: holder 1 returns from its second read of a deflated entry
\* through the pack's own FILE*, which holder 2 has used to read all of
\* another deflated entry.
C34_Witness ==
    /\ ~threads[1].reopen /\ ~threads[2].reopen
    /\ threads[1].kind = "deflated" /\ threads[2].kind = "deflated"
    /\ threads[1].pak_offset # threads[2].pak_offset
    /\ threads[1].pc = "returned"
    /\ threads[1].from = 1 /\ threads[1].want = 1
    /\ threads[1].buf = <<Inflated(1)>>
    /\ threads[2].pc = "idle"
    /\ threads[2].offs = MaxShared

\* C35: while loading a PAK, the directory read never stores more bytes than
\* the fixed directory buffer of 2048 records holds: whenever the read of
\* dirlen bytes is performed, dirlen <= 2048 * 64, for every header that
\* passes the numfiles checks, a dirlen that is not a multiple of 64
\* included.
C35_DirectoryFitsBuffer ==
    (call.op = "load" /\ call.file.ext = "pak" /\ DirReadReached(call.file))
    =>  /\ call.file.dirlen <= InfoSize
        /\ DirRead(call.file) <= InfoSize

====
